---- MODULE Spec2Model ----
(***************************************************************************)
(* A model of install_github_repo.py: the bootstrap of a cloned            *)
(* repository.  The control thread is a program counter `pc`; every        *)
(* external command (subprocess.run) is one action whose outcome (exit 0,  *)
(* non-zero exit, timeout) is chosen by the environment.                   *)
(***************************************************************************)
EXTENDS Integers, Sequences, FiniteSets, TLC

(***************************************************************************)
(* Bounds of the model.                                                    *)
(***************************************************************************)
\* directories below the root of a tree walked by SpecWalk
WalkMaxDirs == 3
\* files in the whole tree walked by SpecWalk
WalkMaxFiles == 2

(***************************************************************************)
(* Sequences and sets helpers.                                             *)
(***************************************************************************)
Range(s) == {s[i] : i \in 1..Len(s)}

Reverse(s) == [i \in 1..Len(s) |-> s[Len(s) + 1 - i]]

RECURSIVE KSubsets(_, _)
\* the subsets of S with at most k elements
KSubsets(S, k) ==
    IF k = 0 THEN {{}}
    ELSE LET prev == KSubsets(S, k - 1)
         IN  prev \cup {x \cup {a} : x \in prev, a \in S}

(***************************************************************************)
(* The tables of download_and_install.                                     *)
(***************************************************************************)
\* dependency_files, in the insertion order that .items() iterates
dependency_files_keys ==
    << "requirements.txt", "Pipfile", "package.json", "yarn.lock", "Gemfile",
       "composer.json", "pom.xml", "build.gradle", "go.mod",
       "truffle-config.js", "hardhat.config.js", "Vyperfile.yaml",
       "solidity.json", "Pipfile.lock", "pnpm-lock.yaml", "*.sln",
       "requirements-dev.txt", "Cargo.toml", "rust-toolchain.toml",
       "rust-toolchain", "foundry.toml", "remappings.txt", "anchor.toml",
       "move.toml", "brownie-config.yaml", "substrate.toml", "ink.toml",
       "tezos.toml", "near.toml" >>

dependency_files ==
    ("requirements.txt" :> "pip") @@ ("Pipfile" :> "pipenv") @@
    ("package.json" :> "npm") @@ ("yarn.lock" :> "yarn") @@
    ("Gemfile" :> "bundle") @@ ("composer.json" :> "composer") @@
    ("pom.xml" :> "mvn") @@ ("build.gradle" :> "gradle") @@
    ("go.mod" :> "go") @@ ("truffle-config.js" :> "truffle") @@
    ("hardhat.config.js" :> "hardhat") @@ ("Vyperfile.yaml" :> "vyper") @@
    ("solidity.json" :> "solc") @@ ("Pipfile.lock" :> "pipenv") @@
    ("pnpm-lock.yaml" :> "pnpm") @@ ("*.sln" :> "nuget") @@
    ("requirements-dev.txt" :> "pip") @@ ("Cargo.toml" :> "cargo") @@
    ("rust-toolchain.toml" :> "cargo") @@ ("rust-toolchain" :> "cargo") @@
    ("foundry.toml" :> "foundryup") @@ ("remappings.txt" :> "foundryup") @@
    ("anchor.toml" :> "anchor") @@ ("move.toml" :> "move") @@
    ("brownie-config.yaml" :> "brownie") @@ ("substrate.toml" :> "substrate") @@
    ("ink.toml" :> "ink") @@ ("tezos.toml" :> "tezos") @@
    ("near.toml" :> "near")

dependency_install_commands ==
    ("requirements.txt" :> <<"pip", "install", "--no-cache-dir", "--ignore-installed", "--no-deps", "-r", "requirements.txt">>) @@
    ("requirements-dev.txt" :> <<"pip", "install", "--no-cache-dir", "--ignore-installed", "--no-deps", "-r", "requirements-dev.txt">>) @@
    ("Pipfile" :> <<"pipenv", "install", "--skip-lock">>) @@
    ("package.json" :> <<"npm", "install", "--no-optional">>) @@
    ("yarn.lock" :> <<"yarn", "install", "--frozen-lockfile">>) @@
    ("Gemfile" :> <<"bundle", "install", "--without", "development", "test">>) @@
    ("composer.json" :> <<"composer", "install", "--no-dev", "--no-suggest">>) @@
    ("pom.xml" :> <<"mvn", "install", "-DskipTests", "-Dmaven.test.skip=true">>) @@
    ("build.gradle" :> <<"gradle", "build", "-x", "test">>) @@
    ("go.mod" :> <<"go", "mod", "download", "-x">>) @@
    ("pnpm-lock.yaml" :> <<"pnpm", "install", "--prod", "--no-optional">>) @@
    ("*.sln" :> <<"nuget", "restore", "-NonInteractive">>) @@
    ("truffle-config.js" :> <<"truffle", "compile", "--quiet">>) @@
    ("hardhat.config.js" :> <<"hardhat", "compile", "--no-typechain">>) @@
    ("Vyperfile.yaml" :> <<"vyper", "--version">>) @@
    ("solidity.json" :> <<"solc", "--install", "all">>) @@
    ("Cargo.toml" :> <<"cargo", "build", "--no-default-features">>) @@
    ("rust-toolchain.toml" :> <<"rustup", "show">>) @@
    ("rust-toolchain" :> <<"rustup", "show">>) @@
    ("foundry.toml" :> <<"forge", "build">>) @@
    ("remappings.txt" :> <<"forge", "remappings">>) @@
    ("anchor.toml" :> <<"anchor", "build">>) @@
    ("move.toml" :> <<"move", "build">>) @@
    ("brownie-config.yaml" :> <<"brownie", "compile">>) @@
    ("substrate.toml" :> <<"cargo", "build">>) @@
    ("ink.toml" :> <<"cargo", "contract", "build">>) @@
    ("tezos.toml" :> <<"ligo", "compile-contract">>) @@
    ("near.toml" :> <<"near", "build">>)

\* excluded_folders of find_and_install_dependencies
excluded_folders ==
    {"node_modules", "venv", "__pycache__", "build", "dist", ".terraform", "env", "target"}

\* the files the Node.js install is triggered by
node_files == {"package.json", "yarn.lock", "package-lock.json"}

\* the files the per-file loop passes over
skipped_files == {"package.json", "yarn.lock", "package-lock.json", "pnpm-lock.yaml"}

max_retries == 3

initial_retry_delay == 5

(***************************************************************************)
(* File and directory names.  A name is an atom; the string tests the code *)
(* makes on names are tables over the names of the model.                  *)
(***************************************************************************)
\* d.startswith('.')
StartsWithDot(name) == name \in {".cache", ".git", ".terraform", ".env"}

\* pattern.startswith('*')
StartsWithStar(pattern) == pattern \in {"*.sln"}

\* pattern.lstrip('*')
LStripStar(pattern) == IF pattern = "*.sln" THEN ".sln" ELSE pattern

\* file.endswith(suffix)
EndsWith(file, suffix) ==
    \/ file = suffix
    \/ suffix = ".sln" /\ file \in {"app.sln", "lib.sln", "legacy.sln"}
    \/ suffix = ".py" /\ file \in {"app.py"}
    \/ suffix = ".toml" /\ file \in {"Cargo.toml", "move.toml"}

(***************************************************************************)
(* Directory trees.  A path is the sequence of names below the repository  *)
(* root, <<>> being the root ('.').  A tree gives its directories, the     *)
(* files of each, the kind of .git entry of each, and the order in which   *)
(* the operating system lists names.                                       *)
(***************************************************************************)
DirUniverse ==
    { <<"app">>, <<".cache">>, <<"vendor">>, <<"indexer">>,
      <<"indexer", "packages">>, <<"indexer", "packages", "node_modules">>,
      <<"indexer", "services">>, <<"indexer", "services", "api">> }

FileUniverse == {"package.json", "requirements.txt", "Pipfile.lock", "app.sln"}

NameOrder ==
    << ".cache", "api", "app", "indexer", "lib", "node_modules", "packages", "services",
       "src", "vendor" >>

FileOrder ==
    << "Cargo.toml", "Gemfile", "Pipfile", "Pipfile.lock", "app.sln", "composer.json",
       "go.mod", "move.toml", "package-lock.json", "package.json", "pom.xml",
       "requirements.txt", "yarn.lock" >>

Parent(p) == SubSeq(p, 1, Len(p) - 1)

IsPrefix(p, q) == Len(p) <= Len(q) /\ SubSeq(q, 1, Len(p)) = p

\* the kinds of .git entry a directory can have: none, a directory, a file
\* that names a gitdir, a file that does not
GitKinds == {"none", "dir", "gitdir_file", "other_file"}

\* The shapes with at most maxDirs directories of U below the root.
ShapesOf(U, maxDirs) ==
    { X \in KSubsets(U, maxDirs) : \A p \in X : Len(p) > 1 => Parent(p) \in X }

\* The tree of shape D with the files F (pairs of a directory and a name),
\* where vendor, when present, has a .git entry of kind gv, and names are
\* listed in alphabetical order or its reverse.  The root is a clone: it has
\* a .git directory.
Tree(D, F, gv, r) ==
    [dirs |-> D \cup {<<>>},
     files |-> F,
     git |-> [d \in D \cup {<<>>} |->
                IF d = <<>> THEN "dir" ELSE IF d = <<"vendor">> THEN gv ELSE "none"],
     rev |-> r]

\* t is one of the trees with at most maxDirs directories of U below the
\* root and at most maxFiles files
TreeWithin(t, U, maxDirs, maxFiles) ==
    \E D \in ShapesOf(U, maxDirs) :
      \E F \in KSubsets((D \cup {<<>>}) \X FileUniverse, maxFiles) :
        \E gv \in (IF <<"vendor">> \in D THEN {"dir", "gitdir_file"} ELSE {"none"}) :
          \E r \in BOOLEAN :
            t = Tree(D, F, gv, r)

FilesIn(t, d) == {e[2] : e \in {x \in t.files : x[1] = d}}

ChildNames(t, d) == {p[Len(p)] : p \in {q \in t.dirs : Len(q) = Len(d) + 1 /\ IsPrefix(d, q)}}

Ordered(t, order, names) ==
    LET s == SelectSeq(order, LAMBDA n : n \in names)
    IN  IF t.rev THEN Reverse(s) ELSE s

\* the directory names and the file names of directory d, as os.walk and
\* os.listdir list them
ListDirs(t, d) == Ordered(t, NameOrder, ChildNames(t, d))

ListFiles(t, d) == Ordered(t, FileOrder, FilesIn(t, d))

\* is_subrepository(path)
is_subrepository(t, d) ==
    IF t.git[d] = "dir" THEN TRUE
    ELSE IF t.git[d] = "gitdir_file" THEN TRUE
    ELSE FALSE

(***************************************************************************)
(* The scan for environment variables.  A file is the pair of its          *)
(* directory and its name.  What a file says is kept abstract: each file   *)
(* names one variable of its own, so that the set a scan returns shows     *)
(* which files contributed to it.                                          *)
(***************************************************************************)
file_extensions ==
    << ".py", ".js", ".jsx", ".ts", ".tsx", ".php", ".env", ".sol", ".vy", ".fe", ".move",
       ".ink", ".rs", ".toml" >>

\* any(file.endswith(ext) for ext in file_extensions)
HasScannedExtension(file) == \E i \in 1..Len(file_extensions) : EndsWith(file, file_extensions[i])

\* glob.glob(os.path.join(base_path, ".env*")), files only
EnvFilesAt(t, base) == {e \in t.files : e[1] = base /\ e[2] \in {".env", ".env.local"}}

\* the keys parse_env_file returns for an env file, and the matches of the
\* patterns in a source file
NamesIn(e) == {e}

NamesOf(E) == UNION {NamesIn(e) : e \in E}

RECURSIVE ScanWalk(_, _, _)
RECURSIVE ScanWalkEach(_, _, _, _)

\* the directories os.walk(base_path) yields from d on, top down.  At a
\* sub-repository other than base_path the name of the sub-repository is
\* removed from the list of ITS subdirectories, and those that remain are
\* walked
ScanWalk(t, base, d) ==
    LET dirs == ListDirs(t, d)
        kept == IF is_subrepository(t, d) /\ d # base
                THEN SelectSeq(dirs, LAMBDA n : n # d[Len(d)])
                ELSE dirs
    IN  <<d>> \o ScanWalkEach(t, base, d, kept)

ScanWalkEach(t, base, d, names) ==
    IF names = <<>> THEN <<>>
    ELSE ScanWalk(t, base, Append(d, Head(names))) \o ScanWalkEach(t, base, d, Tail(names))

\* as ScanSources, but source files are read whether or not base_path has
\* an env file
ScanSourcesAlways(t, base) == TRUE

\* the else branch is taken: base_path has no .env* file
ScanSources(t, base) == EnvFilesAt(t, base) = {}

RECURSIVE detect_environment_variables(_, _)

\* detect_environment_variables(base_path): the names it returns (vars), the
\* env files it parsed, the files its own walk opened (own), the files it
\* and the calls it made opened (opened), and the base paths of those calls
detect_environment_variables(t, base) ==
    LET env_files == EnvFilesAt(t, base)
        walked == ScanWalk(t, base, base)
        subrepositories == SelectSeq(walked, LAMBDA d : is_subrepository(t, d) /\ d # base)
        read == {d \in Range(walked) : ~(is_subrepository(t, d) /\ d # base)}
        own == {e \in t.files : e[1] \in read /\ HasScannedExtension(e[2])}
        sub == [i \in 1..Len(subrepositories) |->
                  detect_environment_variables(t, subrepositories[i])]
        subs == {sub[i] : i \in 1..Len(subrepositories)}
    IN  IF ~ScanSources(t, base)
        THEN [vars |-> NamesOf(env_files), parsed |-> env_files, own |-> {}, opened |-> {},
              calls |-> {}]
        ELSE [vars |-> NamesOf(env_files) \cup NamesOf(own) \cup UNION {r.vars : r \in subs},
              parsed |-> env_files \cup UNION {r.parsed : r \in subs},
              own |-> own,
              opened |-> own \cup UNION {r.opened : r \in subs},
              calls |-> Range(subrepositories) \cup UNION {r.calls : r \in subs}]

\* before the scan
NoScan == [vars |-> {}, parsed |-> {}, own |-> {}, opened |-> {}, calls |-> {}]

\* a variable of the environment that no file of a tree names
PATH == <<<<>>, "PATH">>

\* the value parse_env_file returns for each name of an env file
FileValue == "value"

\* as KeepsValue, but every name of an env file is assigned
KeepsNothing(env, var) == FALSE

\* not (var not in os.environ or os.environ[var] == '')
KeepsValue(env, var) == var \in DOMAIN env /\ env[var] # ""

\* os.environ after the env files E have been parsed: each name of theirs
\* is assigned the file's value unless the variable keeps its own
Seed(env, E) ==
    [var \in DOMAIN env \cup NamesOf(E) |->
        IF var \in NamesOf(E) /\ ~KeepsValue(env, var) THEN FileValue ELSE env[var]]

\* an environment in which nothing a tree names is set
PlainEnviron == PATH :> "old"

(***************************************************************************)
(* Strings the code inspects character by character (versions, version     *)
(* constraints) are sequences of one-character strings.                    *)
(***************************************************************************)
StartsWith(s, prefix) == Len(prefix) <= Len(s) /\ SubSeq(s, 1, Len(prefix)) = prefix

S_workspace == <<"w", "o", "r", "k", "s", "p", "a", "c", "e", ":">>

S_star == <<"*">>

\* the code points of the characters of the model's strings
CharCode ==
    (" " :> 32) @@ ("*" :> 42) @@ ("." :> 46) @@
    ("0" :> 48) @@ ("1" :> 49) @@ ("2" :> 50) @@ ("3" :> 51) @@ ("4" :> 52) @@
    ("5" :> 53) @@ ("6" :> 54) @@ ("7" :> 55) @@ ("8" :> 56) @@ ("9" :> 57) @@
    (":" :> 58) @@ ("<" :> 60) @@ ("=" :> 61) @@ (">" :> 62) @@ ("^" :> 94) @@
    ("v" :> 118) @@ ("x" :> 120) @@ ("~" :> 126)

RECURSIVE StrLess(_, _)
\* a < b on Python strings: the first differing character decides, and a
\* proper prefix is smaller
StrLess(a, b) ==
    IF b = <<>> THEN FALSE
    ELSE IF a = <<>> THEN TRUE
    ELSE IF a[1] = b[1] THEN StrLess(Tail(a), Tail(b))
    ELSE CharCode[a[1]] < CharCode[b[1]]

\* a >= b on Python strings
StrGE(a, b) == ~StrLess(a, b)

RECURSIVE RemoveAll(_, _)
\* s.replace(old, ''), for a non-empty old
RemoveAll(s, old) ==
    IF Len(s) < Len(old) THEN s
    ELSE IF StartsWith(s, old) THEN RemoveAll(SubSeq(s, Len(old) + 1, Len(s)), old)
    ELSE <<s[1]>> \o RemoveAll(Tail(s), old)

RECURSIVE LStrip(_, _)
\* s.lstrip(c), for one character c
LStrip(s, c) == IF s # <<>> /\ s[1] = c THEN LStrip(Tail(s), c) ELSE s

(***************************************************************************)
(* The content of a package.json: its form ("object" when json.load gives  *)
(* an object, "invalid_json" when it raises JSONDecodeError), and its      *)
(* engines, dependencies and devDependencies objects (functions from names *)
(* to strings; <<>> is the empty object).  text tells how the file's text  *)
(* came about: as its author wrote it, or as json.dump(..., indent=2)      *)
(* writes the data.                                                        *)
(***************************************************************************)
PkgPlain ==
    [form |-> "object", engines |-> <<>>,
     deps |-> ("left-pad" :> <<"^", "1", ".", "0", ".", "0">>), devDeps |-> <<>>,
     text |-> <<"source">>]

PkgLinked ==
    [form |-> "object", engines |-> <<>>,
     deps |-> ("core" :> (S_workspace \o <<"*">>)),
     devDeps |-> ("tools" :> (S_workspace \o <<"^">>)) @@ ("left-pad" :> <<"^", "1", ".", "0", ".", "0">>),
     text |-> <<"source">>]

\* the directories of a tree that hold a package.json
PkgDirs(t) == {d \in t.dirs : "package.json" \in FilesIn(t, d)}

(***************************************************************************)
(* get_required_package_manager_version: the required versions of the      *)
(* Node.js tools, from the root's package.json, yarn.lock and              *)
(* package-lock.json.  The result is a dict, modelled as the sequence of   *)
(* its <<key, value>> items in insertion order.                            *)
(***************************************************************************)
S_le16 == <<"<", "=", "1", "6", ".", "0", ".", "0">>

S_ge14 == <<">", "=", "1", "4", ".", "0", ".", "0">>

S_ge16 == <<">", "=", "1", "6", ".", "0", ".", "0">>

S_ge12 == <<">", "=", "1", "2", ".", "0", ".", "0">>

S_le14 == <<"<", "=", "1", "4", ".", "0", ".", "0">>

S_middle == <<">", "=", "1", "4", ".", "0", ".", "0", " ", "<", "=", "1", "6", ".", "0", ".", "0">>

S_le6 == <<"<", "=", "6", ".", "1", "4", ".", "0">>

S_ge7 == <<">", "=", "7", ".", "0", ".", "0">>

S_1x == <<"1", ".", "x">>

S_ge2 == <<">", "=", "2", ".", "0", ".", "0">>

S_le == <<"<", "=">>

S_ge == <<">", "=">>

package_constraints ==
    ("ganache-core" :> S_le16) @@
    ("truffle" :> S_le16) @@
    ("hardhat" :> S_ge14) @@
    ("web3" :> S_ge12) @@
    ("ethers" :> S_ge12) @@
    ("react" :> S_ge12) @@
    ("next" :> S_ge14) @@
    ("vue" :> S_ge12) @@
    ("angular" :> S_ge14) @@
    ("svelte" :> S_ge14) @@
    ("webpack" :> S_ge12) @@
    ("vite" :> S_ge14) @@
    ("esbuild" :> S_ge14) @@
    ("rollup" :> S_ge12) @@
    ("jest" :> S_ge12) @@
    ("mocha" :> S_ge12) @@
    ("cypress" :> S_ge14) @@
    ("gulp" :> S_le16) @@
    ("grunt" :> S_le14) @@
    ("bower" :> S_le14)

\* versions[k] = v
Put(versions, k, v) ==
    IF \E i \in 1..Len(versions) : versions[i][1] = k
    THEN [i \in 1..Len(versions) |->
             IF versions[i][1] = k THEN <<k, v>> ELSE versions[i]]
    ELSE Append(versions, <<k, v>>)

\* k in versions
Has(versions, k) == \E i \in 1..Len(versions) : versions[i][1] = k

\* versions.get(k, '')
Get(versions, k) ==
    IF Has(versions, k)
    THEN versions[CHOOSE i \in 1..Len(versions) : versions[i][1] = k][2]
    ELSE <<>>

\* {**data.get('dependencies', {}), **data.get('devDependencies', {})}
MergedDeps(data) ==
    [n \in DOMAIN data.deps \cup DOMAIN data.devDeps |->
        IF n \in DOMAIN data.devDeps THEN data.devDeps[n] ELSE data.deps[n]]

\* the Node.js requirement inferred from the table of known packages
HintedByTable(deps) ==
    LET version_constraints ==
            {package_constraints[n] : n \in DOMAIN package_constraints \cap DOMAIN deps}
        has_legacy == \E v \in version_constraints : StartsWith(v, S_le)
        has_modern == \E v \in version_constraints : StartsWith(v, S_ge)
    IN  IF version_constraints = {} THEN S_ge14
        ELSE IF has_legacy /\ has_modern THEN S_middle
        ELSE IF has_legacy THEN S_le16
        ELSE S_ge14

\* the requirement after the check for TypeScript
TypescriptRule(deps, hinted) ==
    IF "typescript" \in DOMAIN deps
    THEN LET typescript_version == deps["typescript"]
         IN  IF \/ StartsWith(typescript_version, <<"^", "4">>)
                \/ StartsWith(typescript_version, <<"~", "4">>)
             THEN S_ge14
             ELSE IF \/ StartsWith(typescript_version, <<"^", "5">>)
                     \/ StartsWith(typescript_version, <<"~", "5">>)
             THEN S_ge16
             ELSE hinted
    ELSE hinted

\* the Node.js requirement inferred from the dependencies
HintedNode(deps) == TypescriptRule(deps, HintedByTable(deps))

\* as NodeFromManifest, but the dependencies are consulted even when
\* engines.node is present
NodeFromHintsFirst(data) ==
    LET deps == MergedDeps(data)
    IN  IF DOMAIN deps \cap (DOMAIN package_constraints \cup {"typescript"}) # {}
        THEN HintedNode(deps)
        ELSE IF "node" \in DOMAIN data.engines THEN data.engines["node"]
        ELSE HintedNode(deps)

\* versions['node']: engines.node when the field is present, the inferred
\* requirement otherwise
NodeFromManifest(data) ==
    IF "node" \in DOMAIN data.engines THEN data.engines["node"]
    ELSE HintedNode(MergedDeps(data))

\* the versions taken from a package.json that parses
FromPackageJson(data) ==
    LET engines == data.engines
        v1 == <<<<"node", NodeFromManifest(data)>>>>
        v2 == IF "yarn" \in DOMAIN engines THEN Put(v1, "yarn", engines["yarn"]) ELSE v1
    IN  IF "npm" \in DOMAIN engines THEN Put(v2, "npm", engines["npm"])
        ELSE IF Get(v2, "npm") = <<>>
        THEN IF StartsWith(Get(v2, "node"), <<"<", "=", "1", "6">>)
             THEN Put(v2, "npm", S_le6)
             ELSE Put(v2, "npm", S_ge7)
        ELSE v2

\* as FallbackVersions, but with the defaults of a manifest that parses
FallbackVersionsModern == <<<<"node", S_ge14>>, <<"npm", S_ge7>>>>

\* the fallback versions of a package.json that does not parse
FallbackVersions == <<<<"node", S_le16>>, <<"npm", S_le6>>>>

\* lockfile_to_npm.get(lockfile_version, ">=7.0.0")
lockfile_to_npm(lockfile_version) ==
    CASE lockfile_version = 1 -> S_le6
      [] lockfile_version = 2 -> S_ge7
      [] lockfile_version = 3 -> S_ge7
      [] OTHER -> S_ge7

\* as LockfileConsulted, but a lock file is read whatever is resolved already
LockfileAlwaysConsulted(versions, manager) == TRUE

\* a lock file is read only for a manager that has no constraint yet:
\* 'yarn' not in versions, 'npm' not in versions
LockfileConsulted(versions, manager) == ~Has(versions, manager)

\* t is the tree, p the package.json contents, lk the lock files' contents:
\* lk.yarn is the number after "# yarn lockfile v" (0 when the file has no
\* such line), lk.npm the lockfileVersion (0 when absent, -1 when the file is
\* not JSON)
get_required_package_manager_version(t, p, lk) ==
    LET here == FilesIn(t, <<>>)
        v1 == IF "package.json" \in here
              THEN IF p[<<>>].form = "object" THEN FromPackageJson(p[<<>>])
                   ELSE FallbackVersions
              ELSE <<>>
        v2 == IF LockfileConsulted(v1, "yarn") /\ "yarn.lock" \in here /\ lk.yarn # 0
              THEN Put(v1, "yarn", IF lk.yarn = 1 THEN S_1x ELSE S_ge2)
              ELSE v1
    IN  IF LockfileConsulted(v2, "npm") /\ "package-lock.json" \in here /\ lk.npm # -1
        THEN Put(v2, "npm", lockfile_to_npm(IF lk.npm = 0 THEN 1 ELSE lk.npm))
        ELSE v2

(***************************************************************************)
(* The tools of the machine.  package_managers_install_commands gives, for *)
(* a manager and an operating system, the ordered list of its install      *)
(* commands; each command is written as the line the code logs.            *)
(***************************************************************************)
package_managers_install_commands ==
    ("pipenv" :> [Darwin |-> << "pip install pipenv" >>,
        Linux |-> << "pip install pipenv" >>,
        Windows |-> << "pip install pipenv" >>]) @@
    ("yarn" :> [Darwin |-> << "npm install -g yarn" >>,
        Linux |-> << "npm install -g yarn" >>,
        Windows |-> << "npm install -g yarn" >>]) @@
    ("npm" :> [Darwin |-> << "npm install -g npm" >>,
        Linux |-> << "npm install -g npm" >>,
        Windows |-> << "npm install -g npm" >>]) @@
    ("bundle" :> [Darwin |-> << "gem install bundler" >>,
        Linux |-> << "gem install bundler" >>,
        Windows |-> << "gem install bundler" >>]) @@
    ("composer" :> [Darwin |-> << "curl -sS https://getcomposer.org/installer -o composer-setup.php", "php composer-setup.php", "mv composer.phar /usr/local/bin/composer", "php -r unlink('composer-setup.php');" >>,
        Linux |-> << "curl -sS https://getcomposer.org/installer -o composer-setup.php", "php composer-setup.php", "mv composer.phar /usr/local/bin/composer", "php -r unlink('composer-setup.php');" >>,
        Windows |-> << "php composer-setup.php", "move composer.phar C:\\Composer\\composer.phar", "php -r unlink('composer-setup.php');" >>]) @@
    ("mvn" :> [Darwin |-> << "brew install maven" >>,
        Linux |-> << "sudo apt-get install -y maven" >>,
        Windows |-> << "choco install maven -y" >>]) @@
    ("gradle" :> [Darwin |-> << "brew install gradle" >>,
        Linux |-> << "sudo apt-get install -y gradle" >>,
        Windows |-> << "choco install gradle -y" >>]) @@
    ("go" :> [Darwin |-> << "brew install go" >>,
        Linux |-> << "sudo apt-get install -y golang" >>,
        Windows |-> << "choco install go -y" >>]) @@
    ("truffle" :> [Darwin |-> << "npm install -g truffle" >>,
        Linux |-> << "npm install -g truffle" >>,
        Windows |-> << "npm install -g truffle" >>]) @@
    ("hardhat" :> [Darwin |-> << "npm install --save-dev hardhat" >>,
        Linux |-> << "npm install --save-dev hardhat" >>,
        Windows |-> << "npm install --save-dev hardhat" >>]) @@
    ("solc" :> [Darwin |-> << "brew install solidity" >>,
        Linux |-> << "sudo apt-get install -y solc" >>,
        Windows |-> << "choco install solidity -y" >>]) @@
    ("vyper" :> [Darwin |-> << "pip install vyper" >>,
        Linux |-> << "pip install vyper" >>,
        Windows |-> << "pip install vyper" >>]) @@
    ("pnpm" :> [Darwin |-> << "npm install -g pnpm" >>,
        Linux |-> << "npm install -g pnpm" >>,
        Windows |-> << "npm install -g pnpm" >>]) @@
    ("nuget" :> [Darwin |-> << "brew install nuget" >>,
        Linux |-> << "sudo apt-get install -y nuget" >>,
        Windows |-> << "choco install nuget.commandline -y" >>]) @@
    ("pip" :> [Darwin |-> << "brew install python" >>,
        Linux |-> << "sudo apt-get install -y python3" >>,
        Windows |-> << "choco install python -y" >>]) @@
    ("cargo" :> [Darwin |-> << "curl --proto =https --tlsv1.2 -sSf https://sh.rustup.rs | sh -s -- -y" >>,
        Linux |-> << "curl --proto =https --tlsv1.2 -sSf https://sh.rustup.rs | sh -s -- -y" >>,
        Windows |-> << "curl --proto =https --tlsv1.2 -sSf https://win.rustup.rs -o rustup-init.exe", "rustup-init.exe -y" >>]) @@
    ("foundryup" :> [Darwin |-> << "curl -L https://foundry.paradigm.xyz | bash" >>,
        Linux |-> << "curl -L https://foundry.paradigm.xyz | bash" >>,
        Windows |-> << "curl -L https://foundry.paradigm.xyz | bash" >>]) @@
    ("anchor" :> [Darwin |-> << "cargo install --git https://github.com/project-serum/anchor anchor-cli" >>,
        Linux |-> << "cargo install --git https://github.com/project-serum/anchor anchor-cli" >>,
        Windows |-> << "cargo install --git https://github.com/project-serum/anchor anchor-cli" >>]) @@
    ("brownie" :> [Darwin |-> << "pip install eth-brownie" >>,
        Linux |-> << "pip install eth-brownie" >>,
        Windows |-> << "pip install eth-brownie" >>]) @@
    ("substrate" :> [Darwin |-> << "cargo install substrate-cli-tools" >>,
        Linux |-> << "cargo install substrate-cli-tools" >>,
        Windows |-> << "cargo install substrate-cli-tools" >>]) @@
    ("ink" :> [Darwin |-> << "cargo install cargo-contract" >>,
        Linux |-> << "cargo install cargo-contract" >>,
        Windows |-> << "cargo install cargo-contract" >>]) @@
    ("tezos" :> [Darwin |-> << "ligo compile-contract" >>,
        Linux |-> << "ligo compile-contract" >>,
        Windows |-> << "ligo compile-contract" >>]) @@
    ("near" :> [Darwin |-> << "npm install -g near-cli" >>,
        Linux |-> << "npm install -g near-cli" >>,
        Windows |-> << "npm install -g near-cli" >>])

CommandManagers == DOMAIN package_managers_install_commands

\* os_key is one of these, or the run ends
SupportedOs == {"Darwin", "Linux", "Windows"}

\* a tool is missing from PATH, on PATH with a failing --version, or on PATH
\* with a --version that exits zero
ToolStates == {"missing", "broken", "working"}

\* shutil.which(manager) is not None, and [manager, '--version'] exits zero
CheckPasses(state) == state = "working"

\* required_managers, from the working directory: os.listdir('.') gives the
\* names of files and of directories, os.path.isfile holds of files only
RequiredManagers(t) ==
    { dependency_files[file] :
        file \in { k \in Range(dependency_files_keys) :
                     IF StartsWithStar(k)
                     THEN \E f \in FilesIn(t, <<>>) \cup ChildNames(t, <<>>) :
                            EndsWith(f, LStripStar(k))
                     ELSE k \in FilesIn(t, <<>>) } }

\* the managers whose tool a run checks
ToolManagers(t) == RequiredManagers(t) \cap CommandManagers

\* the install commands of a manager once the table is reduced to os_key
CommandsOf(os_key, manager) ==
    CASE os_key = "Darwin" -> package_managers_install_commands[manager].Darwin
      [] os_key = "Linux" -> package_managers_install_commands[manager].Linux
      [] os_key = "Windows" -> package_managers_install_commands[manager].Windows

max_workers == 8

retries == 3

\* a provisioning job that has not been submitted
NoJob == [st |-> "none", idx |-> 1, log |-> <<>>, n |-> 0]

\* the tree that is only a root directory with the files F
RootTree(F, r) == Tree({}, {<<>>} \X F, "none", r)

VARIABLES
    tree,         \* the repository's directory tree
    pkg,          \* the content of each package.json, by directory
    lock,         \* the content of the root's yarn.lock and package-lock.json
    os_name,      \* platform.system()
    node_version, \* the output of `node -v`, stripped
    tool,         \* the state of each manager's tool on this machine
    disk,         \* the directories and files the program makes around the clone
    cwd,          \* the process's working directory
    pc,           \* the control thread's position
    clone_try,    \* run_git_clone: attempt
    required,     \* required_managers
    order,        \* the order in which the set required_managers is iterated
    next_sub,     \* the position of `for manager in required_managers`
    queue,        \* the executor's work queue
    job,          \* the provisioning job of each required manager
    required_versions, \* find_and_install_dependencies: required_versions
    todo,         \* the items of required_versions still to be handled
    stack,        \* os.walk: the directories still to be yielded
    walk_top,     \* os.walk: the directory yielded last
    root,         \* find_and_install_dependencies: root
    files,        \* find_and_install_dependencies: files
    fi,           \* the position of `for file in files`
    attempt,      \* the retry loop's attempt
    retry_delay,  \* the retry loop's retry_delay
    kids,         \* the workspace children still to be installed
    trace,        \* history: the events of the retry loop in progress
    invoked,      \* history: the install commands invoked by the tree walk
    nonzero_seen, \* history: an install command of the walk has exited non-zero
    late,         \* history: the visit in progress began after such a failure
    late_done,    \* history: the directories whose visit began and ended after one
    switch_log,   \* history: what the version switcher did for each item
    run_log,      \* history: the markers, scripts, re-execs and clones of the run
    scan,         \* detect_environment_variables: what it returned and opened
    environ       \* os.environ: the value of each variable that is set

fsVars == <<tree, pkg>>

envVars == <<lock, os_name, node_version, environ>>

procVars == <<disk, cwd, clone_try>>

poolVars == <<required, order, next_sub, queue, job>>

walkVars == <<stack, walk_top, root, files, fi, attempt, retry_delay, kids>>

histVars == <<trace, invoked, nonzero_seen, late, late_done>>

\* what the tree walk leaves alone
otherVars ==
    <<envVars, tool, procVars, poolVars, required_versions, todo, switch_log, run_log, scan>>

vars == <<fsVars, pc, walkVars, histVars, otherVars>>

(***************************************************************************)
(* find_and_install_dependencies: the tree walk.                           *)
(***************************************************************************)
npm_install == <<"npm", "install", "--legacy-peer-deps">>

indexer_path == <<"indexer">>

Invocation(where, cmd, by) == [cwd |-> where, cmd |-> cmd, by |-> by]

\* dirs[:] = [d for d in dirs if d not in excluded_folders and not d.startswith('.')]
Pruned(dirs) ==
    SelectSeq(dirs, LAMBDA d : d \notin excluded_folders /\ ~StartsWithDot(d))

\* any(excluded in root.split(os.sep) for excluded in excluded_folders)
InExcludedFolder(path) == \E i \in 1..Len(path) : path[i] \in excluded_folders

\* for root, dirs, files in os.walk(base_path): the next directory is yielded,
\* its pruned children are walked before the directories already pending
WalkNext ==
    /\ pc = "walk"
    /\ stack # <<>>
    /\ LET d == Head(stack)
           kept == Pruned(ListDirs(tree, d))
       IN  /\ stack' = [i \in 1..Len(kept) |-> Append(d, kept[i])] \o Tail(stack)
           /\ walk_top' = d
           /\ root' = d
           /\ files' = ListFiles(tree, d)
           /\ pc' = IF InExcludedFolder(d) THEN "walk" ELSE "node"
    /\ fi' = 1
    /\ late' = nonzero_seen
    /\ UNCHANGED <<otherVars, fsVars, attempt, retry_delay, kids, trace, invoked, nonzero_seen, late_done>>

\* the walk is exhausted: find_and_install_dependencies returns and
\* download_and_install logs "Setup complete."
WalkEnd ==
    /\ pc = "walk"
    /\ stack = <<>>
    /\ pc' = "exit0"
    /\ UNCHANGED <<otherVars, fsVars, walkVars, histVars>>

\* Handle Node.js dependencies: npm install in root; a failure is logged
NodeInstall ==
    /\ pc = "node"
    /\ Range(files) \cap node_files # {}
    /\ \E outcome \in {"ok", "fail"} :
          nonzero_seen' = (nonzero_seen \/ outcome = "fail")
    /\ invoked' = invoked \cup {Invocation(root, npm_install, "")}
    /\ pc' = "ws"
    /\ UNCHANGED <<otherVars, fsVars, walkVars, trace, late, late_done>>

NodeSkip ==
    /\ pc = "node"
    /\ Range(files) \cap node_files = {}
    /\ pc' = "ws"
    /\ UNCHANGED <<otherVars, fsVars, walkVars, histVars>>

\* os.path.exists(os.path.join(base_path, 'indexer/package.json'))
HasWorkspace(t) == indexer_path \in t.dirs /\ "package.json" \in FilesIn(t, indexer_path)

WsAbsent ==
    /\ pc = "ws"
    /\ ~HasWorkspace(tree)
    /\ pc' = "files"
    /\ UNCHANGED <<otherVars, fsVars, walkVars, histVars>>

\* the replacement of the 'workspace:' versions of one dependency object
RewriteDeps(deps) ==
    [dep \in DOMAIN deps |->
        IF StartsWith(deps[dep], S_workspace) THEN S_star ELSE deps[dep]]

\* as RewriteManifest, but the file is opened for appending: the dump
\* follows the text that was there
RewriteManifestAppending(m) ==
    [m EXCEPT !.deps = RewriteDeps(m.deps), !.devDeps = RewriteDeps(m.devDeps),
              !.text = Append(m.text, "dump")]

\* the content written back for one package.json: open(pkg_path, 'w')
\* truncates the file and json.dump writes the data anew
RewriteManifest(m) ==
    [m EXCEPT !.deps = RewriteDeps(m.deps), !.devDeps = RewriteDeps(m.devDeps),
              !.text = <<"dump">>]

RECURSIVE LastWalked(_, _)
\* the directory an unpruned os.walk of d yields last
LastWalked(t, d) ==
    LET ds == ListDirs(t, d)
    IN  IF ds = <<>> THEN d ELSE LastWalked(t, Append(d, ds[Len(ds)]))

\* for root, _, files in os.walk(indexer_path): every package.json below
\* indexer is rewritten; the loop rebinds root and files of the outer loop
WsRewrite ==
    /\ pc = "ws"
    /\ HasWorkspace(tree)
    /\ pkg' = [d \in DOMAIN pkg |->
                 IF IsPrefix(indexer_path, d) /\ pkg[d].form = "object"
                 THEN RewriteManifest(pkg[d]) ELSE pkg[d]]
    /\ root' = LastWalked(tree, indexer_path)
    /\ files' = ListFiles(tree, LastWalked(tree, indexer_path))
    /\ pc' = "ws_root"
    /\ UNCHANGED <<otherVars, tree, stack, walk_top, fi, attempt, retry_delay, kids, histVars>>

\* as SubDirsOf, but only the directory listed first is taken
SubDirsOfFirst(t, sub) ==
    LET d == Append(indexer_path, sub)
    IN  IF d \in t.dirs /\ ListDirs(t, d) # <<>>
        THEN <<Append(d, ListDirs(t, d)[1])>>
        ELSE <<>>

\* the directories of indexer/<sub>, as os.listdir and os.path.isdir give them
SubDirsOf(t, sub) ==
    LET d == Append(indexer_path, sub)
    IN  IF d \in t.dirs
        THEN [i \in 1..Len(ListDirs(t, d)) |-> Append(d, ListDirs(t, d)[i])]
        ELSE <<>>

\* npm install in indexer; on success the packages and then the services
\* are installed one by one
WsInstallRoot ==
    /\ pc = "ws_root"
    /\ invoked' = invoked \cup {Invocation(indexer_path, npm_install, "")}
    /\ \E outcome \in {"ok", "fail"} :
          IF outcome = "ok"
          THEN /\ kids' = SubDirsOf(tree, "packages") \o SubDirsOf(tree, "services")
               /\ pc' = "ws_kids"
               /\ UNCHANGED nonzero_seen
          ELSE /\ nonzero_seen' = TRUE
               /\ pc' = "files"
               /\ kids' = <<>>
    /\ UNCHANGED <<otherVars, fsVars, stack, walk_top, root, files, fi, attempt, retry_delay,
                   trace, late, late_done>>

WsInstallChild ==
    /\ pc = "ws_kids"
    /\ kids # <<>>
    /\ invoked' = invoked \cup {Invocation(Head(kids), npm_install, "")}
    /\ \E outcome \in {"ok", "fail"} :
          IF outcome = "ok"
          THEN /\ kids' = Tail(kids)
               /\ pc' = "ws_kids"
               /\ UNCHANGED nonzero_seen
          ELSE /\ nonzero_seen' = TRUE
               /\ pc' = "files"
               /\ kids' = <<>>
    /\ UNCHANGED <<otherVars, fsVars, stack, walk_top, root, files, fi, attempt, retry_delay,
                   trace, late, late_done>>

\* "Successfully installed workspace dependencies": return
WsReturn ==
    /\ pc = "ws_kids"
    /\ kids = <<>>
    /\ pc' = "exit0"
    /\ UNCHANGED <<otherVars, fsVars, walkVars, histVars>>

\* the patterns of dependency_files that a file name matches, in table order
Matches(file) ==
    SelectSeq(dependency_files_keys,
              LAMBDA p : IF StartsWithStar(p) THEN EndsWith(file, LStripStar(p))
                         ELSE file = p)

\* what the body of `for file in files` does with a file: passes over it,
\* takes the wildcard branch, fails on the missing command, or runs the
\* retry loop of the exact-name branch
FileKind(file) ==
    IF file \in skipped_files \/ Matches(file) = <<>> THEN "skip"
    ELSE IF Head(Matches(file)) \notin DOMAIN dependency_install_commands THEN "keyerror"
    ELSE IF StartsWithStar(Head(Matches(file))) THEN "glob"
    ELSE "exact"

\* 'pip' in dependency_install_commands[dep_file_pattern]
RunsPip(pattern) == "pip" \in Range(dependency_install_commands[pattern])

FileSkip ==
    /\ pc = "files"
    /\ fi <= Len(files)
    /\ FileKind(files[fi]) = "skip"
    /\ fi' = fi + 1
    /\ UNCHANGED <<otherVars, fsVars, pc, stack, walk_top, root, files, attempt, retry_delay, kids,
                   histVars>>

\* the wildcard branch: the command of the pattern holds no 'pip', so the
\* retry loop breaks at once and nothing is run
FileGlob ==
    /\ pc = "files"
    /\ fi <= Len(files)
    /\ FileKind(files[fi]) = "glob"
    /\ ~RunsPip(Head(Matches(files[fi])))
    /\ fi' = fi + 1
    /\ UNCHANGED <<otherVars, fsVars, pc, stack, walk_top, root, files, attempt, retry_delay, kids,
                   histVars>>

\* dependency_install_commands[dep_file_pattern] raises KeyError, which no
\* handler of the walk catches: __main__ logs it and exits with status 1
FileKeyError ==
    /\ pc = "files"
    /\ fi <= Len(files)
    /\ FileKind(files[fi]) = "keyerror"
    /\ pc' = "exit1"
    /\ UNCHANGED <<otherVars, fsVars, walkVars, histVars>>

Event(ev, res, secs) == [ev |-> ev, res |-> res, secs |-> secs]

\* a retry loop that makes one attempt more
AfterFailureOneMore(att, outcome) ==
    IF att = max_retries
    THEN IF outcome = "fail" THEN "logged" ELSE "raised"
    ELSE "retry"

\* what follows a failed attempt: a sleep and another attempt, or, after the
\* last attempt, the error log and the re-raise, which the outer handler
\* catches for CalledProcessError only
AfterFailure(att, outcome) ==
    IF att = max_retries - 1
    THEN IF outcome = "fail" THEN "logged" ELSE "raised"
    ELSE "retry"

\* one attempt of the exact-name branch: subprocess.run(cmd, check=True,
\* cwd=root, timeout=300)
FileAttempt ==
    /\ pc = "files"
    /\ fi <= Len(files)
    /\ FileKind(files[fi]) = "exact"
    /\ invoked' = invoked \cup
          {Invocation(root, dependency_install_commands[Head(Matches(files[fi]))], files[fi])}
    /\ \E outcome \in {"ok", "fail", "timeout"} :
          IF outcome = "ok"
          THEN /\ trace' = Append(trace, Event("run", outcome, 0))
               /\ pc' = "file_end"
               /\ UNCHANGED <<attempt, retry_delay, nonzero_seen>>
          ELSE CASE AfterFailure(attempt, outcome) = "retry" ->
                      /\ trace' = trace \o <<Event("run", outcome, 0),
                                             Event("sleep", "", retry_delay)>>
                      /\ attempt' = attempt + 1
                      /\ retry_delay' = retry_delay * 2
                      /\ UNCHANGED <<pc, nonzero_seen>>
                 [] AfterFailure(attempt, outcome) = "logged" ->
                      /\ trace' = trace \o <<Event("run", outcome, 0),
                                             Event("log_error", "", 0)>>
                      /\ pc' = "file_end"
                      /\ nonzero_seen' = TRUE
                      /\ UNCHANGED <<attempt, retry_delay>>
                 [] AfterFailure(attempt, outcome) = "raised" ->
                      /\ trace' = trace \o <<Event("run", outcome, 0),
                                             Event("log_error", "", 0)>>
                      /\ pc' = "exit1"
                      /\ UNCHANGED <<attempt, retry_delay, nonzero_seen>>
    /\ UNCHANGED <<otherVars, fsVars, stack, walk_top, root, files, fi, kids, late, late_done>>

\* the next file: max_retries = 3, retry_delay = 5 are set anew
FileDone ==
    /\ pc = "file_end"
    /\ fi' = fi + 1
    /\ attempt' = 0
    /\ retry_delay' = initial_retry_delay
    /\ trace' = <<>>
    /\ pc' = "files"
    /\ UNCHANGED <<otherVars, fsVars, stack, walk_top, root, files, kids, invoked, nonzero_seen,
                   late, late_done>>

\* `for file in files` is exhausted: back to the head of the walk
DirDone ==
    /\ pc = "files"
    /\ fi > Len(files)
    /\ pc' = "walk"
    /\ late_done' = IF late THEN late_done \cup {walk_top} ELSE late_done
    /\ UNCHANGED <<otherVars, fsVars, walkVars, trace, invoked, nonzero_seen, late>>

WalkStep ==
    \/ WalkNext \/ WalkEnd \/ NodeInstall \/ NodeSkip
    \/ WsAbsent \/ WsRewrite \/ WsInstallRoot \/ WsInstallChild \/ WsReturn
    \/ FileSkip \/ FileGlob \/ FileKeyError \/ FileAttempt \/ FileDone \/ DirDone

\* the walk of find_and_install_dependencies alone, from line 910 on
(***************************************************************************)
(* download_and_install: the start of a process, the clone, the operating  *)
(* system check.  The directories the program makes are paths below the    *)
(* directory the first process was started in (<<>>).                      *)
(***************************************************************************)
MaxRestarts == 2

repositories_dir == "repositories"

repo_name == "repo"

\* the state of the walk before the walk
FreshWalk ==
    /\ stack = << <<>> >>
    /\ walk_top = <<>>
    /\ root = <<>>
    /\ files = <<>>
    /\ fi = 1
    /\ attempt = 0
    /\ retry_delay = initial_retry_delay
    /\ kids = <<>>

\* an event of the run's history; what is a sequence of strings
RunEvent(ev, what) == [ev |-> ev, what |-> what]

\* the state of provisioning and of the version switch before they begin
FreshProcess ==
    /\ clone_try = 0
    /\ required = {}
    /\ order = <<>>
    /\ next_sub = 1
    /\ queue = <<>>
    /\ job = <<>>
    /\ required_versions = <<>>
    /\ todo = <<>>

NoHistory ==
    /\ trace = <<>>
    /\ invoked = {}
    /\ nonzero_seen = FALSE
    /\ late = FALSE
    /\ late_done = {}
    /\ switch_log = {}
    /\ run_log = <<>>
    /\ scan = NoScan

\* the repositories directory is made if it is missing and becomes the
\* working directory, a restart marker found there is removed, and the clone
\* is skipped if the repository's directory exists
Start ==
    /\ pc = "start"
    /\ Len(cwd) <= 2 * MaxRestarts
    /\ LET repos == Append(cwd, repositories_dir)
           repo == Append(repos, repo_name)
       IN  /\ disk' = [disk EXCEPT !.dirs = @ \cup {repos}, !.markers = @ \ {repos}]
           /\ IF repo \in disk.dirs
              THEN /\ cwd' = repo
                   /\ pc' = "os_check"
                   /\ UNCHANGED clone_try
              ELSE /\ cwd' = repos
                   /\ pc' = "clone"
                   /\ clone_try' = 1
           /\ run_log' = run_log
                  \o (IF repos \in disk.markers THEN <<RunEvent("consume", <<>>)>> ELSE <<>>)
                  \o (IF repo \in disk.dirs THEN <<>> ELSE <<RunEvent("clone", <<>>)>>)
    /\ UNCHANGED <<fsVars, envVars, tool, poolVars, required_versions, todo, walkVars,
                   histVars, switch_log, scan>>

\* run_git_clone: one attempt of the retry loop, which exits zero, exits
\* non-zero or times out; the last failure ends the run
CloneAttempt ==
    /\ pc = "clone"
    /\ \E outcome \in {"ok", "fail", "timeout"} :
         IF outcome = "ok"
         THEN /\ disk' = [disk EXCEPT !.dirs = @ \cup {Append(cwd, repo_name)}]
              /\ cwd' = Append(cwd, repo_name)
              /\ pc' = "os_check"
              /\ UNCHANGED clone_try
         ELSE IF clone_try < retries
         THEN /\ clone_try' = clone_try + 1
              /\ UNCHANGED <<disk, cwd, pc>>
         ELSE /\ pc' = "exit1"
              /\ UNCHANGED <<disk, cwd, clone_try>>
    /\ UNCHANGED <<fsVars, envVars, tool, poolVars, required_versions, todo, walkVars, histVars, switch_log, run_log, scan>>

\* os_key, and sys.exit(1) on an unsupported operating system
OsCheck ==
    /\ pc = "os_check"
    /\ pc' = IF os_name \in SupportedOs THEN "fingerprint" ELSE "exit1"
    /\ UNCHANGED <<fsVars, envVars, tool, procVars, poolVars, required_versions, todo, walkVars,
                   histVars, switch_log, run_log, scan>>

(***************************************************************************)
(* Provisioning: required_managers, install_packages_parallel and, on the  *)
(* workers of its pool, check_and_install_package_manager.                 *)
(***************************************************************************)
RECURSIVE Distinct(_)
\* a sequence without the repetitions of its elements
Distinct(s) ==
    IF s = <<>> THEN <<>>
    ELSE <<Head(s)>> \o SelectSeq(Distinct(Tail(s)), LAMBDA x : x # Head(s))

\* the managers of S in the order in which the table names them, or in the
\* reverse order: the iteration order of a set of strings is not fixed
Listed(S, r) ==
    LET all == Distinct([i \in 1..Len(dependency_files_keys) |->
                            dependency_files[dependency_files_keys[i]]])
        s == SelectSeq(all, LAMBDA m : m \in S)
    IN  IF r THEN Reverse(s) ELSE s

\* required_managers is computed; with none the pool is not started
Fingerprint ==
    /\ pc = "fingerprint"
    /\ required' = RequiredManagers(tree)
    /\ \E r \in BOOLEAN : order' = Listed(required', r)
    /\ job' = [m \in required' |-> NoJob]
    /\ pc' = IF required' = {} THEN "envscan" ELSE "submit"
    /\ UNCHANGED <<fsVars, envVars, tool, procVars, next_sub, queue, required_versions, todo,
                   walkVars, histVars, switch_log, run_log, scan>>

\* for manager in required_managers: a job is submitted for a manager that
\* has install commands
Submit ==
    /\ pc = "submit"
    /\ next_sub <= Len(order)
    /\ LET manager == order[next_sub]
       IN  IF manager \in CommandManagers
           THEN /\ job' = [job EXCEPT ![manager].st = "queued", ![manager].n = @ + 1]
                /\ queue' = Append(queue, manager)
           ELSE UNCHANGED <<job, queue>>
    /\ next_sub' = next_sub + 1
    /\ UNCHANGED <<fsVars, envVars, tool, procVars, required, order, pc, required_versions, todo,
                   walkVars, histVars, switch_log, run_log, scan>>

\* the loop is over: concurrent.futures.wait(futures)
SubmitEnd ==
    /\ pc = "submit"
    /\ next_sub > Len(order)
    /\ pc' = "wait"
    /\ UNCHANGED <<fsVars, envVars, tool, procVars, poolVars, required_versions, todo, walkVars,
                   histVars, switch_log, run_log, scan>>

\* the jobs a worker is executing
Running == {m \in DOMAIN job : job[m].st \in {"entry", "install"}}

\* a pool without a cap on its workers
WorkerFreeUncapped(running) == TRUE

\* the pool has a worker that executes no job
WorkerFree(running) == Cardinality(running) < max_workers

\* a free worker takes the job at the head of the queue
JobStart ==
    /\ queue # <<>>
    /\ WorkerFree(Running)
    /\ job' = [job EXCEPT ![Head(queue)].st = "entry"]
    /\ queue' = Tail(queue)
    /\ UNCHANGED <<fsVars, envVars, tool, procVars, required, order, next_sub, pc,
                   required_versions, todo, walkVars, histVars, switch_log, run_log, scan>>

\* the events a job logs: a check of the manager, or an install command
Checked(passed) == [ev |-> "check", res |-> IF passed THEN "pass" ELSE "fail", cmd |-> ""]

Ran(cmd, outcome) == [ev |-> "cmd", res |-> outcome, cmd |-> cmd]

\* the check on entry: a manager that passes it is left alone
JobEntry(m) ==
    /\ job[m].st = "entry"
    /\ job' = [job EXCEPT ![m].st = IF CheckPasses(tool[m]) THEN "done" ELSE "install",
                          ![m].log = Append(@, Checked(CheckPasses(tool[m])))]
    /\ UNCHANGED <<fsVars, envVars, tool, procVars, required, order, next_sub, queue,
                   pc, required_versions, todo, walkVars, histVars, switch_log, run_log, scan>>

\* a job that makes the check after a zero exit and ignores its result
AfterCommandIgnoringCheck(cmd, outcome, after) ==
    IF outcome = "ok"
    THEN [st |-> "install",
          events |-> <<Ran(cmd, outcome), Checked(CheckPasses(after))>>]
    ELSE [st |-> "install", events |-> <<Ran(cmd, outcome)>>]

\* what follows the command cmd that left the tool in state after: after a
\* zero exit the check is made again, and the job returns if it passes;
\* after a non-zero exit the job goes on to the next command
AfterCommand(cmd, outcome, after) ==
    IF outcome = "ok"
    THEN [st |-> IF CheckPasses(after) THEN "done" ELSE "install",
          events |-> <<Ran(cmd, outcome), Checked(CheckPasses(after))>>]
    ELSE [st |-> "install", events |-> <<Ran(cmd, outcome)>>]

\* for cmd in install_commands: the command runs, exits zero or not, and
\* leaves the tool in some state
JobCommand(m) ==
    /\ job[m].st = "install"
    /\ job[m].idx <= Len(CommandsOf(os_name, m))
    /\ \E outcome \in {"ok", "fail"}, after \in ToolStates :
         LET next == AfterCommand(CommandsOf(os_name, m)[job[m].idx], outcome, after)
         IN  /\ tool' = [tool EXCEPT ![m] = after]
             /\ job' = [job EXCEPT ![m].st = next.st,
                                   ![m].idx = @ + 1,
                                   ![m].log = @ \o next.events]
    /\ UNCHANGED <<fsVars, envVars, procVars, required, order, next_sub, queue, pc,
                   required_versions, todo, walkVars, histVars, switch_log, run_log, scan>>

\* every command has been tried: sys.exit(1) raises SystemExit on the worker,
\* and the executor stores it in the job's future
JobExhausted(m) ==
    /\ job[m].st = "install"
    /\ job[m].idx > Len(CommandsOf(os_name, m))
    /\ job' = [job EXCEPT ![m].st = "raised"]
    /\ UNCHANGED <<fsVars, envVars, tool, procVars, required, order, next_sub, queue,
                   pc, required_versions, todo, walkVars, histVars, switch_log, run_log, scan>>

\* wait returns when every future is done, with a result or with an
\* exception; nothing reads the futures
WaitDone ==
    /\ pc = "wait"
    /\ \A m \in DOMAIN job : job[m].st \in {"none", "done", "raised"}
    /\ pc' = "envscan"
    /\ UNCHANGED <<fsVars, envVars, tool, procVars, poolVars, required_versions, todo, walkVars,
                   histVars, switch_log, run_log, scan>>

\* detect_environment_variables and prompt_for_env_vars: they read the tree
\* and write the environment and a .env file, which no later step reads
EnvScan ==
    /\ pc = "envscan"
    /\ scan' = detect_environment_variables(tree, <<>>)
    /\ environ' = Seed(environ, scan'.parsed)
    /\ pc' = "resolve"
    /\ UNCHANGED <<fsVars, lock, os_name, node_version, tool, procVars, poolVars,
                   required_versions, todo, walkVars, histVars, switch_log, run_log>>

PoolStep ==
    \/ OsCheck
    \/ Fingerprint
    \/ Submit
    \/ SubmitEnd
    \/ JobStart
    \/ \E m \in DOMAIN job : JobEntry(m)
    \/ \E m \in DOMAIN job : JobCommand(m)
    \/ \E m \in DOMAIN job : JobExhausted(m)
    \/ WaitDone

(***************************************************************************)
(* The version switch at the start of find_and_install_dependencies:       *)
(* install_required_package_manager_version for each item of               *)
(* required_versions that has a version.                                   *)
(***************************************************************************)
npm_compatibility ==
    << <<<<"2", "0", ".", "0">>, <<"9", ".", "6", ".", "4">>>>,
       <<<<"2", "0", ".", "5">>, <<"1", "0", ".", "9", ".", "2">>>>,
       <<<<"1", "8", ".", "1", "7">>, <<"1", "0", ".", "9", ".", "2">>>>,
       <<<<"1", "8">>, <<"9", ".", "6", ".", "4">>>>,
       <<<<"1", "6">>, <<"8", ".", "1", "9", ".", "4">>>>,
       <<<<"1", "4">>, <<"6", ".", "1", "4", ".", "1", "8">>>> >>

default_npm == <<"9", ".", "6", ".", "4">>

\* the npm version for the Node.js version: the first entry whose key the
\* version starts with
TargetNpm(version) ==
    LET hits == SelectSeq(npm_compatibility, LAMBDA e : StartsWith(version, e[1]))
    IN  IF hits = <<>> THEN default_npm ELSE hits[1][2]

\* version[1:] when the version starts with ^ or ~
StripRange(version) ==
    IF StartsWith(version, <<"^">>) \/ StartsWith(version, <<"~">>)
    THEN Tail(version) ELSE version

\* the current Node.js version satisfies the requirement, as the code
\* decides it
NodeSatisfied(current_version, version) ==
    /\ StartsWith(version, S_ge)
    /\ StrGE(RemoveAll(current_version, <<"v">>), RemoveAll(version, S_ge))

SwitchEntry(manager, version, did, target) ==
    [manager |-> manager, version |-> version, node |-> node_version,
     did |-> did, target |-> target]

\* json.load or a later use of its result raises an exception that
\* get_required_package_manager_version does not catch: the bytes are not
\* text (UnicodeDecodeError), the JSON is not an object (AttributeError), or
\* a field that must be an object is null (TypeError)
ResolverRaises(t, p) ==
    /\ "package.json" \in FilesIn(t, <<>>)
    /\ p[<<>>].form \in {"undecodable", "not_object", "null_field"}

\* required_versions is computed, and the items with an empty version are
\* passed over; an exception of the resolver ends the run
Resolve ==
    /\ pc = "resolve"
    /\ IF ResolverRaises(tree, pkg)
       THEN /\ pc' = "exit1"
            /\ UNCHANGED <<required_versions, todo>>
       ELSE /\ required_versions' = get_required_package_manager_version(tree, pkg, lock)
            /\ todo' = SelectSeq(required_versions', LAMBDA item : item[2] # <<>>)
            /\ pc' = "switch"
    /\ UNCHANGED <<fsVars, envVars, tool, procVars, poolVars, walkVars, histVars,
                   switch_log, run_log, scan>>

\* as AfterInstall, but the switch loop goes on whatever the exit status
AfterInstallIgnoringExit(outcome) == "switch"

\* where the control thread goes after a global install of npm or yarn: a
\* non-zero exit is logged and raised, and ends the run
AfterInstall(outcome) == IF outcome = "ok" THEN "switch" ELSE "exit1"

\* manager == 'npm': npm install -g npm@target, the target chosen from the
\* current Node.js version
SwitchNpm ==
    /\ pc = "switch"
    /\ todo # <<>>
    /\ Head(todo)[1] = "npm"
    /\ LET target == TargetNpm(LStrip(node_version, "v"))
       IN  \E outcome \in {"ok", "fail"} :
             /\ switch_log' = switch_log \cup
                    {SwitchEntry("npm", Head(todo)[2],
                                 IF outcome = "ok" THEN "installed" ELSE "failed", target)}
             /\ pc' = AfterInstall(outcome)
             /\ todo' = IF outcome = "ok" THEN Tail(todo) ELSE todo
    /\ UNCHANGED <<fsVars, envVars, tool, procVars, poolVars, required_versions,
                   walkVars, histVars, run_log, scan>>

\* manager == 'yarn': npm install -g yarn@version
SwitchYarn ==
    /\ pc = "switch"
    /\ todo # <<>>
    /\ Head(todo)[1] = "yarn"
    /\ LET target == StripRange(Head(todo)[2])
       IN  \E outcome \in {"ok", "fail"} :
             /\ switch_log' = switch_log \cup
                    {SwitchEntry("yarn", Head(todo)[2],
                                 IF outcome = "ok" THEN "installed" ELSE "failed", target)}
             /\ pc' = AfterInstall(outcome)
             /\ todo' = IF outcome = "ok" THEN Tail(todo) ELSE todo
    /\ UNCHANGED <<fsVars, envVars, tool, procVars, poolVars, required_versions,
                   walkVars, histVars, run_log, scan>>

\* manager == 'node', and the current version is taken to satisfy the
\* requirement: return
SwitchNodeNoop ==
    /\ pc = "switch"
    /\ todo # <<>>
    /\ Head(todo)[1] = "node"
    /\ NodeSatisfied(node_version, Head(todo)[2])
    /\ switch_log' = switch_log \cup {SwitchEntry("node", Head(todo)[2], "noop", <<>>)}
    /\ todo' = Tail(todo)
    /\ UNCHANGED <<fsVars, envVars, tool, procVars, poolVars, required_versions, pc,
                   walkVars, histVars, run_log, scan>>

\* manager == 'node' otherwise: the restart marker, which holds the version,
\* and temp_nvm.sh are written in the working directory
SwitchNodeMarker ==
    /\ pc = "switch"
    /\ todo # <<>>
    /\ Head(todo)[1] = "node"
    /\ ~NodeSatisfied(node_version, Head(todo)[2])
    /\ switch_log' = switch_log \cup {SwitchEntry("node", Head(todo)[2], "switch", Head(todo)[2])}
    /\ disk' = [disk EXCEPT !.markers = @ \cup {cwd}, !.scripts = @ \cup {cwd}]
    /\ run_log' = Append(run_log, RunEvent("marker", Head(todo)[2]))
    /\ pc' = "nvm"
    /\ UNCHANGED <<fsVars, envVars, tool, cwd, clone_try, poolVars, required_versions,
                   todo, walkVars, histVars, scan>>

\* as AfterScript, but the process is replaced whatever the script's exit
AfterScriptIgnoringExit(outcome) == "start"

\* where the control thread goes after temp_nvm.sh: a non-zero exit is
\* logged and raised, and ends the run; after a zero exit the process is
\* replaced
AfterScript(outcome) == IF outcome = "ok" THEN "start" ELSE "exit1"

\* temp_nvm.sh runs in a child shell.  After a zero exit the script is
\* removed and os.execv replaces the process, which starts again in the same
\* working directory and with the same PATH
NvmRun ==
    /\ pc = "nvm"
    /\ \E outcome \in {"ok", "fail"} :
         /\ pc' = AfterScript(outcome)
         /\ IF pc' = "start"
            THEN /\ disk' = [disk EXCEPT !.scripts = @ \ {cwd}]
                 /\ run_log' = run_log \o <<RunEvent("script", <<outcome>>),
                                            RunEvent("execv", <<>>)>>
                 /\ clone_try' = 0
                 /\ required' = {}
                 /\ order' = <<>>
                 /\ next_sub' = 1
                 /\ queue' = <<>>
                 /\ job' = <<>>
                 /\ required_versions' = <<>>
                 /\ todo' = <<>>
            ELSE /\ run_log' = Append(run_log, RunEvent("script", <<outcome>>))
                 /\ UNCHANGED <<disk, clone_try, poolVars, required_versions, todo>>
    /\ UNCHANGED <<fsVars, envVars, tool, cwd, walkVars, histVars, switch_log, scan>>

\* every item has been handled: the walk begins
SwitchDone ==
    /\ pc = "switch"
    /\ todo = <<>>
    /\ pc' = "walk"
    /\ UNCHANGED <<fsVars, envVars, tool, procVars, poolVars, required_versions, todo,
                   walkVars, histVars, switch_log, run_log, scan>>

VersionStep ==
    \/ Resolve
    \/ SwitchNpm
    \/ SwitchYarn
    \/ SwitchNodeNoop
    \/ SwitchNodeMarker
    \/ NvmRun
    \/ SwitchDone

(***************************************************************************)
(* The inputs of the specifications.                                       *)
(***************************************************************************)
\* a field that a package.json does not have
Absent == <<"absent">>

Only(k, v) == IF v = Absent THEN <<>> ELSE (k :> v)

Manifest(node, yarn, npm, deps) ==
    [form |-> "object",
     engines |-> Only("node", node) @@ Only("yarn", yarn) @@ Only("npm", npm),
     deps |-> deps, devDeps |-> <<>>, text |-> <<"source">>]

PkgInvalid ==
    [form |-> "invalid_json", engines |-> <<>>, deps |-> <<>>, devDeps |-> <<>>,
     text |-> <<"source">>]

\* a package.json that cannot be used for another reason: open() fails
\* ("unreadable"), the bytes are not UTF-8 ("undecodable"), the JSON is an
\* array ("not_object"), engines is null ("null_field")
PkgOfForm(form) ==
    [form |-> form, engines |-> <<>>, deps |-> <<>>, devDeps |-> <<>>, text |-> <<"source">>]

ProblemForms == {"unreadable", "undecodable", "not_object", "null_field"}

EngineNodes ==
    { Absent, <<>>, S_ge14, <<">", "=", "8", ".", "0", ".", "0">>, <<">", "=", "1", "8", ".", "1", "7", ".", "0">>, S_le16,
      <<"^", "1", "8", ".", "0", ".", "0">> }

EngineYarns == { Absent, <<"^", "1", ".", "2", "2", ".", "0">> }

EngineNpms == { Absent, <<">", "=", "8", ".", "0", ".", "0">>, <<"^", "8", ".", "0", ".", "0">> }

DepSets ==
    { <<>>,
      ("truffle" :> <<"^", "5", ".", "1", ".", "0">>),
      ("hardhat" :> <<"^", "2", ".", "0", ".", "0">>),
      ("truffle" :> <<"^", "5", ".", "1", ".", "0">>) @@ ("hardhat" :> <<"^", "2", ".", "0", ".", "0">>),
      ("typescript" :> <<"^", "5", ".", "0", ".", "0">>),
      ("truffle" :> <<"^", "5", ".", "1", ".", "0">>) @@ ("hardhat" :> <<"^", "2", ".", "0", ".", "0">>)
          @@ ("typescript" :> <<"^", "5", ".", "0", ".", "0">>),
      ("grunt" :> <<"^", "1", ".", "0", ".", "0">>) @@ ("typescript" :> <<"~", "4", ".", "9", ".", "0">>) }

Manifests ==
    { Manifest(n, y, p, d) : n \in EngineNodes, y \in EngineYarns, p \in EngineNpms,
                             d \in DepSets } \cup {PkgInvalid}
    \cup {PkgOfForm(form) : form \in ProblemForms}

V_8 == <<"v", "8", ".", "1", "7", ".", "0">>

V_12 == <<"v", "1", "2", ".", "2", "2", ".", "0">>

V_16 == <<"v", "1", "6", ".", "2", "0", ".", "2">>

V_18 == <<"v", "1", "8", ".", "1", "7", ".", "0">>

NodeVersions == {V_8, V_12, V_16, V_18}

OsNames == SupportedOs \cup {"FreeBSD"}

NoLocks == [yarn |-> 0, npm |-> 0]

\* the clone exists and is the working directory
InClone ==
    /\ cwd = <<repositories_dir, repo_name>>
    /\ disk = [dirs |-> {<<>>, <<repositories_dir>>, <<repositories_dir, repo_name>>},
               markers |-> {}, scripts |-> {}]

\* at most maxBroken of the required managers among breakable do not pass
\* the check
ToolsWithin(t, breakable, maxBroken) ==
    \E B \in KSubsets(RequiredManagers(t) \cap breakable, maxBroken) :
      \E st \in [B -> {"missing", "broken"}] :
        tool = [m \in ToolManagers(t) |-> IF m \in B THEN st[m] ELSE "working"]

AllWorking == tool = [m \in ToolManagers(tree) |-> "working"]

(***************************************************************************)
(* The tree walk on its own.                                               *)
(***************************************************************************)
InitWalk ==
    /\ TreeWithin(tree, DirUniverse, WalkMaxDirs, WalkMaxFiles)
    /\ pkg \in [PkgDirs(tree) -> {PkgPlain, PkgLinked}]
    /\ lock = NoLocks
    /\ environ = PlainEnviron
    /\ os_name = "Linux"
    /\ node_version = V_18
    /\ AllWorking
    /\ InClone
    /\ pc = "walk"
    /\ FreshProcess
    /\ FreshWalk
    /\ NoHistory

SpecWalk == InitWalk /\ [][WalkStep]_vars

(***************************************************************************)
(* The tree walk over workspaces: trees in which packages and services     *)
(* have several children and package.json is the only file, so that the    *)
(* per-file loop passes over every file.                                   *)
(***************************************************************************)
WorkspaceMaxDirs == 4

WorkspaceMaxFiles == 2

WorkspaceDirUniverse ==
    { <<"indexer">>,
      <<"indexer", "packages">>, <<"indexer", "packages", "app">>,
      <<"indexer", "packages", "lib">>,
      <<"indexer", "services">>, <<"indexer", "services", "api">> }

InitWorkspace ==
    /\ \E D \in ShapesOf(WorkspaceDirUniverse, WorkspaceMaxDirs) :
         \E P \in KSubsets(D \cup {<<>>}, WorkspaceMaxFiles) :
           \E r \in BOOLEAN :
             tree = Tree(D, P \X {"package.json"}, "none", r)
    /\ pkg \in [PkgDirs(tree) -> {PkgPlain, PkgLinked}]
    /\ lock = NoLocks
    /\ environ = PlainEnviron
    /\ os_name = "Linux"
    /\ node_version = V_18
    /\ AllWorking
    /\ InClone
    /\ pc = "walk"
    /\ FreshProcess
    /\ FreshWalk
    /\ NoHistory

\* the steps of the walk that such a tree enables
WorkspaceWalkStep ==
    \/ WalkNext \/ WalkEnd \/ NodeInstall \/ NodeSkip
    \/ WsAbsent \/ WsRewrite \/ WsInstallRoot \/ WsInstallChild \/ WsReturn
    \/ FileSkip \/ DirDone

SpecWorkspace == InitWorkspace /\ [][WorkspaceWalkStep]_vars

(***************************************************************************)
(* Provisioning on its own, from the operating system check to the end of  *)
(* the wait.                                                               *)
(***************************************************************************)
PoolMaxFiles == 2

PoolMaxBroken == 1

PoolFileUniverse ==
    { "requirements.txt", "Pipfile", "package.json", "yarn.lock", "Gemfile",
      "composer.json", "pom.xml", "go.mod", "Cargo.toml", "move.toml", "app.sln" }

\* the managers whose tool may be missing or broken at the start: one with
\* several install commands, one with one or two
PoolBreakable == {"composer", "cargo"}

\* more manifests than the pool has workers
ManyFiles == PoolFileUniverse \ {"composer.json"}

\* the root has few files, or many
PoolFileSets == KSubsets(PoolFileUniverse, PoolMaxFiles) \cup {ManyFiles}

\* roots with one subdirectory: one that holds a manifest, one whose name
\* ends as a solution file's does
PoolSubTrees ==
    { Tree({<<"app">>}, ({<<>>} \X F) \cup {<<<<"app">>, "requirements.txt">>}, "none", FALSE) :
        F \in {{}, {"Gemfile"}} }
    \cup { Tree({<<"legacy.sln">>}, {<<>>} \X F, "none", FALSE) : F \in {{}, {"Gemfile"}} }

InitPool ==
    /\ tree \in {RootTree(F, FALSE) : F \in PoolFileSets} \cup PoolSubTrees
    /\ pkg \in [PkgDirs(tree) -> {PkgPlain}]
    /\ lock = NoLocks
    /\ environ = PlainEnviron
    /\ os_name \in OsNames
    /\ node_version = V_18
    /\ ToolsWithin(tree, PoolBreakable, PoolMaxBroken)
    /\ InClone
    /\ pc = "os_check"
    /\ FreshProcess
    /\ FreshWalk
    /\ NoHistory

SpecPool == InitPool /\ [][PoolStep]_vars

(***************************************************************************)
(* The version switch on its own.                                          *)
(***************************************************************************)
VersionFiles == {"package.json", "yarn.lock", "package-lock.json"}

InitVersions ==
    /\ \E F \in SUBSET VersionFiles :
         /\ tree = RootTree(F, FALSE)
         /\ lock \in [yarn : IF "yarn.lock" \in F THEN {0, 1, 2} ELSE {0},
                      npm : IF "package-lock.json" \in F THEN {-1, 0, 1, 2, 3, 4} ELSE {0}]
    /\ pkg \in [PkgDirs(tree) -> Manifests]
    /\ environ = PlainEnviron
    /\ os_name = "Linux"
    /\ node_version \in NodeVersions
    /\ AllWorking
    /\ InClone
    /\ pc = "resolve"
    /\ FreshProcess
    /\ FreshWalk
    /\ NoHistory

SpecVersions == InitVersions /\ [][VersionStep]_vars

(***************************************************************************)
(* The scan for environment variables on its own: trees in which any       *)
(* directory may be a repository of its own, with env files, source files  *)
(* and files the scan does not read.                                       *)
(***************************************************************************)
ScanMaxDirs == 3

ScanMaxFiles == 3

ScanDirUniverse == {<<"src">>, <<"vendor">>, <<"vendor", "lib">>, <<"vendor", "vendor">>}

ScanFileUniverse == {".env", ".env.local", "app.py", "notes.md"}

\* the tree of shape D with the files F in which the directories G, and the
\* root, hold a .git directory
ScanTree(D, F, G) ==
    [dirs |-> D \cup {<<>>},
     files |-> F,
     git |-> [d \in D \cup {<<>>} |-> IF d = <<>> \/ d \in G THEN "dir" ELSE "none"],
     rev |-> FALSE]

InitScan ==
    /\ \E D \in ShapesOf(ScanDirUniverse, ScanMaxDirs) :
         \E F \in KSubsets((D \cup {<<>>}) \X ScanFileUniverse, ScanMaxFiles) :
           \E G \in SUBSET D :
             tree = ScanTree(D, F, G)
    /\ pkg \in [PkgDirs(tree) -> {PkgPlain}]
    /\ lock = NoLocks
    /\ environ = PlainEnviron
    /\ os_name = "Linux"
    /\ node_version = V_18
    /\ AllWorking
    /\ InClone
    /\ pc = "envscan"
    /\ FreshProcess
    /\ FreshWalk
    /\ NoHistory

SpecScan == InitScan /\ [][EnvScan]_vars

(***************************************************************************)
(* The scan and the environment: a root, with or without the               *)
(* sub-repository vendor, and an environment in which each name an env     *)
(* file may define is unset, set to the empty string, or set.              *)
(***************************************************************************)
EnvironMaxFiles == 3

EnvironFileUniverse == {".env", ".env.local", "app.py"}

EnvironNames == (({<<>>, <<"vendor">>} \X {".env"}) \cup {<<<<>>, ".env.local">>, PATH})

InitEnviron ==
    /\ \E D \in {{}, {<<"vendor">>}} :
         \E F \in KSubsets((D \cup {<<>>}) \X EnvironFileUniverse, EnvironMaxFiles) :
           tree = ScanTree(D, F, D)
    /\ \E S \in SUBSET EnvironNames : environ \in [S -> {"", "old"}]
    /\ pkg \in [PkgDirs(tree) -> {PkgPlain}]
    /\ lock = NoLocks
    /\ os_name = "Linux"
    /\ node_version = V_18
    /\ AllWorking
    /\ InClone
    /\ pc = "envscan"
    /\ FreshProcess
    /\ FreshWalk
    /\ NoHistory

SpecEnviron == InitEnviron /\ [][EnvScan]_vars

(***************************************************************************)
(* A whole run, restarts included.                                         *)
(***************************************************************************)
RunMaxDirs == 3

RunMaxFiles == 2

RunMaxBroken == 1

RunBreakable == {"pip"}

RunDirUniverse ==
    { <<"app">>, <<"indexer">>, <<"indexer", "packages">>,
      <<"indexer", "packages", "node_modules">> }

\* a package.json that names its engines
PkgEngines == Manifest(S_ge14, <<"^", "1", ".", "2", "2", ".", "0">>, Absent, <<>>)

Init ==
    /\ TreeWithin(tree, RunDirUniverse, RunMaxDirs, RunMaxFiles)
    /\ pkg \in [PkgDirs(tree) -> {PkgPlain, PkgLinked, PkgEngines}]
    /\ \A d \in PkgDirs(tree) : pkg[d] = PkgEngines => d = <<>>
    /\ lock = NoLocks
    /\ environ = PlainEnviron
    /\ os_name \in {"Linux", "FreeBSD"}
    /\ node_version \in {V_12, V_18}
    /\ ToolsWithin(tree, RunBreakable, RunMaxBroken)
    /\ cwd = <<>>
    /\ \E there \in BOOLEAN :
         disk = [dirs |-> IF there
                          THEN {<<>>, <<repositories_dir>>, <<repositories_dir, repo_name>>}
                          ELSE {<<>>},
                 markers |-> {}, scripts |-> {}]
    /\ pc = "start"
    /\ FreshProcess
    /\ FreshWalk
    /\ NoHistory

Next ==
    \/ Start
    \/ CloneAttempt
    \/ PoolStep
    \/ EnvScan
    \/ VersionStep
    \/ WalkStep

Spec == Init /\ [][Next]_vars

(***************************************************************************)
(* Properties.                                                             *)
(***************************************************************************)
\* the names the specification's ExclusionSet lists, besides hidden names
ExclusionSetNames == {"node_modules", "venv", "build", "dist", "target"}

InsideExcluded(path) ==
    \E i \in 1..Len(path) : path[i] \in ExclusionSetNames \/ StartsWithDot(path[i])

\* the path is, or lies inside, a directory other than the root that
\* is_subrepository recognises
InsideSubrepository(t, path) ==
    \E k \in 1..Len(path) : is_subrepository(t, SubSeq(path, 1, k))

\* C1: no install command of the tree walk, the workspace installs included,
\* has a working directory that is or lies inside node_modules, venv, build,
\* dist, target or a hidden directory.
C1_NoInstallInsideExcluded ==
    \A inv \in invoked : ~InsideExcluded(inv.cwd)

\* C2: no install command of the tree walk has a working directory that is
\* or lies inside a nested sub-repository.
C2_NoInstallInsideSubrepository ==
    \A inv \in invoked : ~InsideSubrepository(tree, inv.cwd)

Runs(tr) == SelectSeq(tr, LAMBDA e : e.ev = "run")

\* the events of a retry loop whose command fails at every attempt
ExhaustedTrace ==
    << Event("run", "fail", 0), Event("sleep", "", 5),
       Event("run", "fail", 0), Event("sleep", "", 10),
       Event("run", "fail", 0), Event("log_error", "", 0) >>

AlwaysFails(tr) == tr # <<>> /\ \A i \in 1..Len(tr) : tr[i].ev = "run" => tr[i].res = "fail"

\* C4: a per-file command that exits non-zero at every attempt is run exactly
\* 3 times, with a wait of 5 s and then of 10 s between the attempts and none
\* after the last; the failure is then logged and the walk goes on.
C4_RetryBound ==
    AlwaysFails(trace) =>
        /\ IsPrefix(trace, ExhaustedTrace)
        /\ pc # "exit1"
        /\ (pc = "file_end" => trace = ExhaustedTrace)

C4_Witness ==
    /\ pc = "file_end"
    /\ trace = ExhaustedTrace
    /\ Len(Runs(trace)) = 3

\* a trace with every timeout read as a non-zero exit
AsFailures(tr) ==
    [i \in 1..Len(tr) |-> IF tr[i].res = "timeout" THEN Event("run", "fail", 0) ELSE tr[i]]

\* C5: a per-file command that times out is handled as one that exits
\* non-zero: the same retries and waits, and after a last attempt that timed
\* out the failure is logged and the walk goes on.
C5_TimeoutHandledAsFailure ==
    (trace # <<>> /\ AlwaysFails(AsFailures(trace))) =>
        /\ IsPrefix(AsFailures(trace), ExhaustedTrace)
        /\ pc # "exit1"
        /\ (pc = "file_end" => AsFailures(trace) = ExhaustedTrace)

\* the install commands that the visit of directory d owes to d's own files
OwnInstalls(t, d) ==
    (IF FilesIn(t, d) \cap node_files # {} THEN {Invocation(d, npm_install, "")} ELSE {})
    \cup { Invocation(d, dependency_install_commands[f], f) :
             f \in {g \in FilesIn(t, d) : FileKind(g) = "exact"} }

\* C6: a non-zero exit of an install command of the walk does not end the
\* run, and every directory visited after it has its own install commands
\* invoked.
C6_FailureDoesNotStopTheWalk ==
    /\ \A d \in late_done : OwnInstalls(tree, d) \subseteq invoked
    /\ (nonzero_seen /\ pc = "exit1") =>
          (trace = <<>> \/ trace[Len(trace) - 1].res = "timeout")

\* C3: once a provisioning job has tried every install command without
\* success, the run does not end with status zero and the walk runs no
\* install command.
C3_ExhaustionIsFatal ==
    (\E m \in DOMAIN job : job[m].st = "raised") => (pc # "exit0" /\ invoked = {})

\* the events of a job's log that are commands, and their command lines
Commands(log) == SelectSeq(log, LAMBDA e : e.ev = "cmd")

CommandLines(log) == [i \in 1..Len(Commands(log)) |-> Commands(log)[i].cmd]

\* what C7 says of a job apart from the repetition of the check: the job
\* begins with the check, a check that passes ends it, and the commands run
\* are the first commands of the manager's list, in order
ChecksAndOrder(m) ==
    LET log == job[m].log
    IN  /\ log # <<>> => log[1].ev = "check"
        /\ \A i \in 1..Len(log) :
             (log[i].ev = "check" /\ log[i].res = "pass") => i = Len(log)
        /\ (job[m].st = "done") <=>
             (log # <<>> /\ log[Len(log)].ev = "check" /\ log[Len(log)].res = "pass")
        /\ Commands(log) # <<>> => IsPrefix(CommandLines(log), CommandsOf(os_name, m))

\* C7 as stated: a command is run only while the check has not passed, in
\* list order, and the check is repeated after each command.
C7_CheckAfterEachAttempt ==
    \A m \in DOMAIN job :
      /\ ChecksAndOrder(m)
      /\ \A i \in 1..Len(job[m].log) :
           job[m].log[i].ev = "cmd" =>
             (i < Len(job[m].log) /\ job[m].log[i + 1].ev = "check")

\* C7, amended: a command is run only while the check has not passed, in
\* list order; the check is repeated after each command that exits zero, and
\* a command that exits non-zero is followed by the next command, or by the
\* end of the job, without a check.
C7_CheckAfterEachZeroExit ==
    \A m \in DOMAIN job :
      /\ ChecksAndOrder(m)
      /\ \A i \in 1..Len(job[m].log) :
           job[m].log[i].ev = "cmd" =>
             IF job[m].log[i].res = "ok"
             THEN i < Len(job[m].log) /\ job[m].log[i + 1].ev = "check"
             ELSE i < Len(job[m].log) => job[m].log[i + 1].ev = "cmd"

\* a job whose second command made the manager pass the check, after a
\* first command that exited non-zero
C7_Witness ==
    \E m \in DOMAIN job :
      /\ job[m].st = "done"
      /\ Len(job[m].log) = 4
      /\ job[m].log[2].ev = "cmd" /\ job[m].log[2].res = "fail"
      /\ job[m].log[3].ev = "cmd" /\ job[m].log[3].res = "ok"

\* C8: at most max_workers provisioning jobs execute at a time, and once the
\* control thread has left the provisioning phase no job is executing or
\* waiting, so that the control thread's command is the only one in flight.
C8_BoundedPool ==
    /\ Cardinality(Running) <= max_workers
    /\ pc \notin {"start", "clone", "os_check", "fingerprint", "submit", "wait"} =>
         /\ queue = <<>>
         /\ \A m \in DOMAIN job : job[m].st \in {"none", "done", "raised"}

\* every worker is busy while a job waits, and the control thread is in wait
C8_Witness ==
    /\ Cardinality(Running) = max_workers
    /\ queue # <<>>
    /\ pc = "wait"

\* C9: when the submit loop is over, every required manager has been handed
\* to the provisioner exactly once.
C9_EachRequiredManagerOnce ==
    /\ \A m \in DOMAIN job : job[m].n <= 1
    /\ pc \in {"wait", "envscan"} => \A m \in required : job[m].n = 1

IsDigit(c) == c \in {"0", "1", "2", "3", "4", "5", "6", "7", "8", "9"}

DigitValue(c) == CharCode[c] - CharCode["0"]

RECURSIVE Split(_)
\* the parts of s between its dots
Split(s) ==
    IF s = <<>> THEN << <<>> >>
    ELSE LET rest == Split(Tail(s))
         IN  IF s[1] = "." THEN << <<>> >> \o rest
             ELSE << <<s[1]>> \o rest[1] >> \o Tail(rest)

\* s is dot-separated decimal numbers
IsVersion(s) ==
    \A i \in 1..Len(Split(s)) :
      /\ Split(s)[i] # <<>>
      /\ \A j \in 1..Len(Split(s)[i]) : IsDigit(Split(s)[i][j])

RECURSIVE Number(_)
Number(digits) ==
    IF digits = <<>> THEN 0
    ELSE 10 * Number(SubSeq(digits, 1, Len(digits) - 1)) + DigitValue(digits[Len(digits)])

Numbers(s) == [i \in 1..Len(Split(s)) |-> Number(Split(s)[i])]

Component(a, i) == IF i <= Len(a) THEN a[i] ELSE 0

\* a >= b, component by component, a missing component being zero
NumericGE(a, b) ==
    ~ \E i \in 1..(Len(a) + Len(b)) :
        /\ Component(a, i) < Component(b, i)
        /\ \A j \in 1..(i - 1) : Component(a, j) = Component(b, j)

\* C10: for node and a constraint >=X the switcher does nothing exactly when
\* the current version is numerically at least X, and for a constraint of
\* another form it switches.
C10_NumericNoop ==
    \A e \in switch_log :
      e.manager = "node" =>
        LET X == SubSeq(e.version, 3, Len(e.version))
            current == LStrip(e.node, "v")
        IN  IF StartsWith(e.version, S_ge)
            THEN (IsVersion(X) /\ IsVersion(current)) =>
                   (e.did = "noop" <=> NumericGE(Numbers(current), Numbers(X)))
            ELSE e.did = "switch"

(***************************************************************************)
(* The runtime switch and the restart.                                     *)
(***************************************************************************)
Last(seq) == seq[Len(seq)]

\* the process that wrote the last marker has not been replaced yet
MarkerWrittenByThisProcess ==
    /\ run_log # <<>>
    /\ Last(run_log).ev \in {"marker", "script"}

\* the events of a runtime switch are in the order marker, script, re-exec
SwitchInOrder ==
    /\ pc = "nvm" =>
          /\ run_log # <<>>
          /\ Last(run_log) = RunEvent("marker", Get(required_versions, "node"))
          /\ cwd \in disk.markers
    /\ \A i \in 1..Len(run_log) :
          /\ run_log[i].ev = "script" => i > 1 /\ run_log[i - 1].ev = "marker"
          /\ run_log[i].ev = "execv" =>
                /\ i > 2
                /\ run_log[i - 1] = RunEvent("script", <<"ok">>)
                /\ run_log[i - 2].ev = "marker"

\* C11: when the Node.js version has to change, the marker that holds the
\* desired version is written first, then the version manager's script runs,
\* then the process is replaced; it is replaced only after the script exited
\* zero, and the process that wrote the marker runs no install command of
\* the walk afterwards
C11_MarkerScriptReexec ==
    /\ []SwitchInOrder
    /\ [][MarkerWrittenByThisProcess => invoked' = invoked]_vars

\* a switch that went through all three steps
C11_Witness ==
    /\ Len(run_log) >= 3
    /\ Last(run_log).ev = "execv"
    /\ run_log[Len(run_log) - 1] = RunEvent("script", <<"ok">>)
    /\ run_log[Len(run_log) - 2].ev = "marker"
    /\ run_log[Len(run_log) - 2].what # <<>>

\* the process has passed its startup check and has written no marker of
\* its own
StartedAfterReexec ==
    /\ \E i \in 1..Len(run_log) : run_log[i].ev = "execv"
    /\ Last(run_log).ev \in {"execv", "consume", "clone"}
    /\ pc # "start"

\* C12: after a re-exec the restarted process finds its predecessor's
\* marker and removes it, so that no marker is left on disk once the
\* restarted process has passed its startup check
C12_MarkerConsumedAfterReexec ==
    /\ \A i \in 1..Len(run_log) :
          (run_log[i].ev = "execv" /\ i < Len(run_log)) => run_log[i + 1].ev = "consume"
    /\ StartedAfterReexec => disk.markers = {}

\* C13: the restarted process finds the repository its predecessor cloned:
\* it does not call git clone again, and it works in the same repository
\* directory
C13_NoSecondClone ==
    /\ \A i, j \in 1..Len(run_log) :
          (run_log[i].ev = "execv" /\ i < j) => run_log[j].ev # "clone"
    /\ pc \notin {"start", "clone", "exit1"} => cwd = <<repositories_dir, repo_name>>

\* a command that installs or activates a required version exited non-zero
VersionCommandFailed ==
    \/ \E e \in switch_log : e.did = "failed"
    \/ \E i \in 1..Len(run_log) : run_log[i] = RunEvent("script", <<"fail">>)

\* C14: when temp_nvm.sh or the global install of npm or yarn exits
\* non-zero, the run ends with exit status 1 and no install command of the
\* walk is executed
C14_VersionFailureAborts ==
    VersionCommandFailed => pc = "exit1" /\ invoked = {}

\* a failed global install of npm, after yarn had been installed
C14_Witness ==
    /\ pc = "exit1"
    /\ \E e \in switch_log : e.did = "failed" /\ e.manager = "npm"
    /\ \E e \in switch_log : e.did = "installed" /\ e.manager = "yarn"

(***************************************************************************)
(* The versions that are installed and the constraints that are resolved.  *)
(***************************************************************************)
\* C15: npm and yarn are installed globally at the version that the
\* resolved constraint gives once a leading '^' or '~' is removed, so that
\* the installed version depends on the constraint only
C15_InstalledVersionFromConstraint ==
    \A e \in switch_log :
        e.manager \in {"npm", "yarn"} => e.target = StripRange(e.version)

\* the resolver has returned in the process that is running
Resolved == pc \in {"switch", "nvm", "walk"} \/ (pc = "exit1" /\ required_versions # <<>>)

\* the root has a package.json that is a JSON object
RootManifestParses ==
    /\ "package.json" \in FilesIn(tree, <<>>)
    /\ pkg[<<>>].form = "object"

\* C16: when package.json parses and has engines.node, the node constraint
\* that the resolver returns is that field's value, whatever packages the
\* dependency lists name, typescript included
C16_EnginesNodeUnchanged ==
    (Resolved /\ RootManifestParses /\ "node" \in DOMAIN pkg[<<>>].engines) =>
        /\ Has(required_versions, "node")
        /\ Get(required_versions, "node") = pkg[<<>>].engines["node"]

\* engines.node beside a legacy package and a typescript version that the
\* rule for TypeScript knows
C16_Witness ==
    /\ Resolved
    /\ RootManifestParses
    /\ "node" \in DOMAIN pkg[<<>>].engines
    /\ pkg[<<>>].engines["node"] = <<"^", "1", "8", ".", "0", ".", "0">>
    /\ {"grunt", "typescript"} \subseteq DOMAIN MergedDeps(pkg[<<>>])
    /\ Get(required_versions, "node") = <<"^", "1", "8", ".", "0", ".", "0">>

\* sub occurs in s
Contains(s, sub) ==
    \E i \in 1..(Len(s) - Len(sub) + 1) : SubSeq(s, i, i + Len(sub) - 1) = sub

\* the names of deps that the table maps to a constraint that begins with
\* prefix
Hints(deps, prefix) ==
    {n \in DOMAIN package_constraints \cap DOMAIN deps :
        StartsWith(package_constraints[n], prefix)}

\* C17: without engines.node, when the dependencies name a legacy package of
\* the table and a modern one, the node constraint that the resolver returns
\* has both a lower and an upper bound, whatever else the dependency lists
\* hold
C17_ConflictingHintsGiveRange ==
    (/\ Resolved
     /\ RootManifestParses
     /\ "node" \notin DOMAIN pkg[<<>>].engines
     /\ Hints(MergedDeps(pkg[<<>>]), S_le) # {}
     /\ Hints(MergedDeps(pkg[<<>>]), S_ge) # {}) =>
        /\ Contains(Get(required_versions, "node"), S_ge)
        /\ Contains(Get(required_versions, "node"), S_le)

RECURSIVE Words(_)
\* the parts of s between its spaces
Words(s) ==
    IF s = <<>> THEN << <<>> >>
    ELSE LET rest == Words(Tail(s))
         IN  IF s[1] = " " THEN << <<>> >> \o rest
             ELSE << <<s[1]>> \o rest[1] >> \o Tail(rest)

\* the Node.js version v, a sequence of numbers, satisfies the constraint c,
\* a list of comparators >=X and <=X separated by spaces
Admits(c, v) ==
    \A i \in 1..Len(Words(c)) :
        LET word == Words(c)[i]
            X == Numbers(SubSeq(word, 3, Len(word)))
        IN  /\ StartsWith(word, S_ge) => NumericGE(v, X)
            /\ StartsWith(word, S_le) => NumericGE(X, v)

\* the largest X of the comparators >=X of c, <<0>> when there is none
LowerBound(c) ==
    LET lows == {Numbers(SubSeq(Words(c)[i], 3, Len(Words(c)[i]))) :
                    i \in {j \in 1..Len(Words(c)) : StartsWith(Words(c)[j], S_ge)}}
    IN  IF lows = {} THEN <<0>>
        ELSE CHOOSE X \in lows : \A Y \in lows : NumericGE(X, Y)

\* Node.js versions on both sides of the bounds that the resolver uses
SampleVersions ==
    { <<10, 24, 1>>, <<12, 22, 0>>, <<14, 0, 0>>, <<15, 14, 0>>, <<16, 0, 0>>,
      <<16, 20, 2>>, <<18, 17, 0>>, <<20, 5, 0>> }

\* C18: the rule for TypeScript only tightens the node constraint inferred
\* from the table: the lower bound does not decrease, and no Node.js version
\* that the inferred constraint excluded is admitted afterwards
C18_TypescriptOnlyTightens ==
    (/\ Resolved
     /\ RootManifestParses
     /\ "node" \notin DOMAIN pkg[<<>>].engines
     /\ "typescript" \in DOMAIN MergedDeps(pkg[<<>>])) =>
        LET before == HintedByTable(MergedDeps(pkg[<<>>]))
            after == Get(required_versions, "node")
        IN  /\ NumericGE(LowerBound(after), LowerBound(before))
            /\ \A v \in SampleVersions : Admits(after, v) => Admits(before, v)

\* the root's package.json is not valid JSON, and the resolver is past it
InvalidManifestResolved ==
    /\ pc \notin {"resolve", "start"}
    /\ "package.json" \in FilesIn(tree, <<>>)
    /\ pkg[<<>>].form = "invalid_json"

C20_AnyProblemGivesFallback ==
    (/\ pc \notin {"resolve", "start"}
     /\ "package.json" \in FilesIn(tree, <<>>)
     /\ pkg[<<>>].form # "object") =>
        /\ Get(required_versions, "node") = S_le16
        /\ Get(required_versions, "npm") = S_le6
        /\ pc = "exit1" => VersionCommandFailed

\* the root's package.json parses and names the manager in engines
EnginesName(manager) ==
    /\ RootManifestParses
    /\ manager \in DOMAIN pkg[<<>>].engines

\* the root has a yarn.lock with a "# yarn lockfile v" line
YarnLockMarked ==
    /\ "yarn.lock" \in FilesIn(tree, <<>>)
    /\ lock.yarn # 0

\* the root has a package-lock.json that is JSON
NpmLockParses ==
    /\ "package-lock.json" \in FilesIn(tree, <<>>)
    /\ lock.npm # -1

\* a lock file sets only its own manager's constraint, never that of node,
\* and never replaces a constraint that came from package.json or from the
\* fallback
LockfileOwnManagerOnly ==
    /\ "package.json" \notin FilesIn(tree, <<>>) => ~Has(required_versions, "node")
    /\ EnginesName("yarn") => Get(required_versions, "yarn") = pkg[<<>>].engines["yarn"]
    /\ EnginesName("npm") => Get(required_versions, "npm") = pkg[<<>>].engines["npm"]
    /\ ("package.json" \in FilesIn(tree, <<>>) /\ ~EnginesName("npm")) =>
          Get(required_versions, "npm") =
              IF StartsWith(Get(required_versions, "node"), <<"<", "=", "1", "6">>)
              THEN S_le6 ELSE S_ge7
    /\ Has(required_versions, "yarn") => EnginesName("yarn") \/ YarnLockMarked
    /\ Has(required_versions, "npm") =>
          "package.json" \in FilesIn(tree, <<>>) \/ NpmLockParses

WalkPhase == {"walk", "node", "ws", "ws_root", "ws_kids", "files", "file_end"}

\* C22: the phases run in the order fingerprint, provision, resolve/switch,
\* install, scan: the scan of environment variables starts where the walk
\* ends, and version resolution does not come after it
C22_ScanAfterInstall ==
    [][/\ (pc # "envscan" /\ pc' = "envscan") => pc \in WalkPhase
       /\ pc = "envscan" => pc' # "resolve"]_vars

\* the lock files of the Node.js ecosystem
NodeLockfiles == {"yarn.lock", "package-lock.json", "pnpm-lock.yaml"}

\* the repository is a root directory that holds package.json and one lock
\* file, and nothing else
ManifestAndLockfileOnly ==
    /\ tree.dirs = {<<>>}
    /\ \E l \in NodeLockfiles : FilesIn(tree, <<>>) = {"package.json", l}

\* C23: for a root that holds only package.json and one lock file, the set
\* of required managers has exactly one element, and the walk runs exactly
\* one install command in the root
C23_OneManagerOneInstall ==
    ManifestAndLockfileOnly =>
        /\ pc \in {"submit", "wait", "envscan"} => Cardinality(required) = 1
        /\ pc = "exit0" => Cardinality({i \in invoked : i.cwd = <<>>}) = 1

\* some file directly in the root matches a pattern that the table maps to m
RootFileMatches(m) ==
    \E k \in Range(dependency_files_keys), f \in FilesIn(tree, <<>>) :
        /\ dependency_files[k] = m
        /\ IF StartsWithStar(k) THEN EndsWith(f, LStripStar(k)) ELSE f = k

\* C24: a manager is required exactly when some file directly in the root
\* matches one of its patterns; what lies in subdirectories adds nothing
C24_RequiredFromRootFiles ==
    pc \in {"submit", "wait", "envscan"} =>
        \A k \in Range(dependency_files_keys) :
            dependency_files[k] \in required <=> RootFileMatches(dependency_files[k])

(***************************************************************************)
(* The installs of the tree walk.                                          *)
(***************************************************************************)
\* the names that the pattern table lists as they are
ExactNames == {k \in Range(dependency_files_keys) : ~StartsWithStar(k)}

\* d was yielded by os.walk: it is the directory yielded last or one of its
\* ancestors
SurelyVisited(d) == IsPrefix(d, walk_top)

\* C25: when the walk has ended without a fatal condition, every file of a
\* visited directory that is not in an excluded folder, whose name the
\* pattern table lists and which neither the Node.js install nor the
\* workspace handling covers, has had its install command invoked in that
\* directory
C25_EveryManifestInstalled ==
    pc = "exit0" =>
        \A d \in tree.dirs :
            (SurelyVisited(d) /\ ~InExcludedFolder(d) /\ ~IsPrefix(indexer_path, d)) =>
                \A f \in (FilesIn(tree, d) \cap ExactNames) \ skipped_files :
                    \E i \in invoked : i.cwd = d /\ i.by = f

\* the patterns of the table that begin with '*' and that the name matches
GlobsOf(f) ==
    {k \in Range(dependency_files_keys) : StartsWithStar(k) /\ EndsWith(f, LStripStar(k))}

\* C26: a file of a visited directory whose name matches a '*' pattern of
\* the table has that pattern's install command executed in its directory,
\* once for each such file
C26_GlobFilesInstalled ==
    pc = "exit0" =>
        \A d \in tree.dirs :
            (SurelyVisited(d) /\ ~InExcludedFolder(d)) =>
                \A f \in FilesIn(tree, d) : \A k \in GlobsOf(f) :
                    \E i \in invoked :
                        i.cwd = d /\ i.by = f /\ i.cmd = dependency_install_commands[k]

\* the patterns whose files get the list of candidate commands (pip, then
\* python -m pip, then pip3): the branch of the '*' patterns, under the test
\* 'pip' in dependency_install_commands[dep_file_pattern]
PatternsWithCandidates ==
    {k \in Range(dependency_files_keys) \cap DOMAIN dependency_install_commands :
        StartsWithStar(k) /\ RunsPip(k)}

\* C27: the candidate commands of a manifest are attempted in their fixed
\* order, each only after those before it failed and none after the first
\* success, and some manifest of the pattern table gets this treatment: the
\* table that the walk works from has a pattern whose files are handed to
\* the candidate list
C27_CandidatesReached == pc \in WalkPhase => PatternsWithCandidates # {}

(***************************************************************************)
(* The rewrite of the workspace manifests.                                 *)
(***************************************************************************)
\* the manifests of the workspace have been rewritten: the install in
\* indexer, which follows the rewrite, has been invoked
WorkspaceRewritten ==
    /\ HasWorkspace(tree)
    /\ \E i \in invoked : i.cwd = indexer_path /\ i.cmd = npm_install

\* C28: the rewrite of a workspace manifest is a fixed point: applied to a
\* manifest that it has rewritten it gives the same content, and once the
\* manifests are rewritten no later pass of the installer changes them
C28_RewriteIsFixedPoint ==
    /\ [](WorkspaceRewritten =>
            \A d \in DOMAIN pkg :
                (IsPrefix(indexer_path, d) /\ pkg[d].form = "object") =>
                    RewriteManifest(pkg[d]) = pkg[d])
    /\ [][WorkspaceRewritten => pkg' = pkg]_vars

\* the rewrite has run a second time, in the visit of a directory that
\* follows a failed workspace install, over a manifest that had a
\* 'workspace:' dependency
C28_Witness ==
    /\ WorkspaceRewritten
    /\ pc = "ws_root"
    /\ walk_top # <<>>
    /\ \E d \in DOMAIN pkg :
          /\ IsPrefix(indexer_path, d)
          /\ pkg[d] = RewriteManifest(PkgLinked)
          /\ pkg[d] # PkgLinked

\* the scan has run
Scanned == pc = "resolve"

\* the env files of the scanned root
RootEnvFiles == EnvFilesAt(tree, <<>>)

\* C29: a scan of a root that has a dot-env file returns exactly the names
\* its dot-env files define, and opens no source file for pattern scanning:
\* none at the root, none in a subdirectory, none in a sub-repository, and
\* it makes no call for a sub-repository
C29_EnvFileStopsScan ==
    (Scanned /\ RootEnvFiles # {}) =>
        /\ scan.vars = NamesOf(RootEnvFiles)
        /\ scan.parsed = RootEnvFiles
        /\ scan.opened = {}
        /\ scan.calls = {}

\* a root with .env, a source file at the root, and a sub-repository with a
\* source file of its own, has been scanned and only .env's name came back
C29_Witness ==
    /\ Scanned
    /\ <<<<>>, ".env">> \in tree.files
    /\ <<<<>>, "app.py">> \in tree.files
    /\ <<"vendor">> \in tree.dirs
    /\ is_subrepository(tree, <<"vendor">>)
    /\ <<<<"vendor">>, "app.py">> \in tree.files
    /\ scan.vars = {<<<<>>, ".env">>}

\* d lies in a sub-repository of the scanned root
InSubRepository(d) ==
    \E r \in tree.dirs : r # <<>> /\ is_subrepository(tree, r) /\ IsPrefix(r, d)

\* the sub-repositories that lie in no other sub-repository
OuterSubRepositories ==
    {r \in tree.dirs : /\ r # <<>>
                       /\ is_subrepository(tree, r)
                       /\ ~InSubRepository(Parent(r))}

\* the source files of the root that lie in no sub-repository
ParentSources == {e \in tree.files : HasScannedExtension(e[2]) /\ ~InSubRepository(e[1])}

\* C30: when the scanned root has no dot-env file, the parent's walk opens
\* no file that lies in a sub-repository, every sub-repository is scanned by
\* a call of its own, and the set returned is the union of the names of the
\* parent's own files and of the sets returned for the sub-repositories
C30_SubRepositoriesScannedApart ==
    (Scanned /\ RootEnvFiles = {}) =>
        /\ \A e \in scan.own : ~InSubRepository(e[1])
        /\ OuterSubRepositories \subseteq scan.calls
        /\ scan.vars = NamesOf(ParentSources)
                         \cup UNION {detect_environment_variables(tree, r).vars :
                                       r \in OuterSubRepositories}

\* the scan of a root that has a dot-env file is about to run
ScansEnvFiles == pc = "envscan" /\ RootEnvFiles # {}

\* every variable that is set stays set, and every variable that no dot-env
\* file of the root defines is as it was
OnlyRootNamesChange ==
    /\ DOMAIN environ \subseteq DOMAIN environ'
    /\ \A var \in DOMAIN environ' \ NamesOf(RootEnvFiles) :
         var \in DOMAIN environ /\ environ'[var] = environ[var]

\* C31 (as the code has it): when a dot-env file is present, the scanner
\* changes the environment only for names that are unset or set to the empty
\* string: a variable that has a non-empty value keeps it, such a name
\* defined in the file gets the file's value, and no variable that no
\* dot-env file of the root defines is changed
C31_SeedsUnsetOrEmpty ==
    [][ScansEnvFiles =>
          /\ OnlyRootNamesChange
          /\ \A var \in NamesOf(RootEnvFiles) :
               /\ var \in DOMAIN environ'
               /\ environ'[var] = IF var \in DOMAIN environ /\ environ[var] # ""
                                  THEN environ[var]
                                  ELSE FileValue]_vars

\* C31 (as stated): when a dot-env file is present, the scanner changes the
\* environment only for names that are unset: every variable that is set
\* keeps its value, an unset name defined in the file gets the file's value,
\* and no variable that no dot-env file of the root defines is changed
C31_SeedsUnsetOnly ==
    [][ScansEnvFiles =>
          /\ OnlyRootNamesChange
          /\ \A var \in DOMAIN environ : environ'[var] = environ[var]
          /\ \A var \in NamesOf(RootEnvFiles) \ DOMAIN environ :
               var \in DOMAIN environ' /\ environ'[var] = FileValue]_vars

\* a root with .env and .env.local has been scanned: the name of .env has
\* the file's value, the name of .env.local has kept the value it had, and
\* the name of the sub-repository's .env is still unset
C31_Witness ==
    /\ Scanned
    /\ {<<<<>>, ".env">>, <<<<>>, ".env.local">>, <<<<"vendor">>, ".env">>} \subseteq tree.files
    /\ environ[<<<<>>, ".env">>] = FileValue
    /\ environ[<<<<>>, ".env.local">>] = "old"
    /\ <<<<"vendor">>, ".env">> \notin DOMAIN environ
    /\ environ[PATH] = "old"

\* the number of times the process has been replaced so far
Reexecs == Cardinality({i \in 1..Len(run_log) : run_log[i].ev = "execv"})

\* C32: the number of re-execs that runtime switches cause in a run is
\* bounded: a run does not switch and re-execute as often as it is let to
\* (MaxRestarts times), whatever the node constraint and the current node
\* version are
C32_ReexecsBounded == Reexecs < MaxRestarts

\* C33: every per-file install command of the tree walk is triggered by a
\* file of the directory the traversal is visiting (the one os.walk yielded
\* last) and runs with that directory as its working directory, also at a
\* directory where the workspace handling ran and its installs failed
C33_PerFileInstallAtVisitedDirectory ==
    [][\A inv \in invoked' \ invoked :
          inv.by # "" => /\ inv.cwd = walk_top
                         /\ inv.by \in FilesIn(tree, walk_top)]_vars

\* the control thread runs npm install for the Node.js files of root
NodeInstallStep == pc = "node" /\ pc' = "ws" /\ Range(files) \cap node_files # {}

\* the control thread begins the workspace's rewrite-and-install sequence
WorkspaceStep == pc = "ws" /\ pc' = "ws_root"

\* C34: in one run of the walk the Node.js install command is invoked once
\* for a directory that holds package.json, yarn.lock or package-lock.json
\* (it has not been invoked there when the directory's visit invokes it), and
\* the workspace's rewrite-and-install sequence is performed at most once
\* (no manifest of the workspace has been rewritten when it begins)
C34_OncePerDirectoryOncePerWorkspace ==
    [][/\ NodeInstallStep => Invocation(root, npm_install, "") \notin invoked
       /\ WorkspaceStep => \A d \in DOMAIN pkg : pkg[d].text # <<"dump">>]_vars

\* the immediate child directories of indexer/packages and indexer/services
WorkspaceChildren ==
    {d \in tree.dirs : Len(d) = 3 /\ IsPrefix(indexer_path, d) /\ d[2] \in {"packages", "services"}}

\* every manifest of the workspace has been written back without a
\* 'workspace:' value
ManifestsRewritten ==
    \A d \in DOMAIN pkg :
        IsPrefix(indexer_path, d) =>
            pkg[d].text = <<"dump">> /\ pkg[d] = RewriteManifest(pkg[d])

OnlyWorkspaceValuesReplaced(before, after) ==
    /\ DOMAIN after = DOMAIN before
    /\ \A dep \in DOMAIN before :
         after[dep] = IF StartsWith(before[dep], S_workspace) THEN <<"*">> ELSE before[dep]

\* C36: the workspace manifest rewrite does not modify a manifest that lies
\* inside node_modules, venv, build, dist, target or a hidden directory, and
\* the only change it makes to a manifest is the replacement by '*' of the
\* values of dependencies and devDependencies that start with 'workspace:'
C36_RewriteSparesExcluded ==
    [][\A d \in DOMAIN pkg :
          /\ InsideExcluded(d) => pkg'[d] = pkg[d]
          /\ pkg'[d].form = pkg[d].form
          /\ pkg'[d].engines = pkg[d].engines
          /\ OnlyWorkspaceValuesReplaced(pkg[d].deps, pkg'[d].deps)
             \/ pkg'[d].deps = pkg[d].deps
          /\ OnlyWorkspaceValuesReplaced(pkg[d].devDeps, pkg'[d].devDeps)
             \/ pkg'[d].devDeps = pkg[d].devDeps]_vars

=============================================================================
